---------------------------- MODULE Spec2Model ----------------------------
(***************************************************************************)
(* A model of the nearsay server: the multi-zoom cluster index kept in the *)
(* geospatial cache (src/src/cache.rs), the document store adapter         *)
(* (src/src/db.rs), the online-user index and the room fan-out             *)
(* (src/src/socket.rs).                                                    *)
(*                                                                         *)
(* Conventions.                                                            *)
(*  - Every await of the source is one step of the task that runs it; a    *)
(*    redis pipeline is sent as one batch over the shared multiplexed      *)
(*    connection and is one step.                                          *)
(*  - Coordinates are integers.  A post sits on a grid point of PosSet;    *)
(*    stored centroids are kept in units of 1/Scale of a grid step so that *)
(*    every weighted mean merge_clusters can produce is an integer.        *)
(*  - Nil (a missing redis key) is 0 for sizes, Absent for coordinates and *)
(*    NoBlurb for blurbs.                                                  *)
(***************************************************************************)
EXTENDS Integers, Sequences, FiniteSets, TLC

\* ------------------------------------------------------------------ bounds
MaxPosts == 3
\* inserts made while other requests are in flight
MaxRacePosts == 2

\* ------------------------------------------------------- program constants
MIN_CACHED_ZOOM_LEVEL == 3
MAX_CACHED_ZOOM_LEVEL == 5
\* cluster.rs: 7827151.696402048 m; here in grid steps (one step = 1/64 of it)
FIFTY_PX_IN_METERS_AT_ZOOM_0 == 64
\* db.rs insert_post: expiry = today() + 7
POST_LIFETIME == 7

Zooms == MIN_CACHED_ZOOM_LEVEL..MAX_CACHED_ZOOM_LEVEL
Ids == 1..MaxPosts
Tasks == {"t1", "t2"}
Cron == "cron"
AllTasks == Tasks \cup {Cron}
NoTask == "none"
Orphan == "orphan"
Uids == {"u1", "u2"}
NoUid == "nobody"

\* grid points posts are pinned to (grid steps); with radii 8, 4, 2 at zooms
\* 3, 4, 5: (0,0)-(3,0) merge on zooms 3 and 4, (0,0)-(6,0) on zoom 3 only,
\* (0,20) merges with nothing, equal points merge everywhere.
PosSet == {<<0, 0>>, <<3, 0>>, <<6, 0>>, <<0, 20>>}
RacePos == {<<0, 0>>, <<3, 0>>}
RaceIds == 1..MaxRacePosts

RECURSIVE Gcd(_, _)
Gcd(a, b) == IF b = 0 THEN a ELSE Gcd(b, a % b)
RECURSIVE LcmUpTo(_)
LcmUpTo(n) == IF n <= 1 THEN 1 ELSE (LcmUpTo(n - 1) * n) \div Gcd(LcmUpTo(n - 1), n)
\* every cluster holds at most 2*MaxPosts points (a post can be counted twice
\* only by a re-insert), so every mean is a multiple of 1/Scale
Scale == LcmUpTo(2 * MaxPosts)

Absent == <<-1, -1>>
NoBlurb == <<-1>>
LongBody == [i \in 1..26 |-> 7]
Bodies == {LongBody}
BLURB_LEN == 25

RECURSIVE Pow2(_)
Pow2(n) == IF n = 0 THEN 1 ELSE 2 * Pow2(n - 1)

Min(a, b) == IF a < b THEN a ELSE b

\* ----------------------------------------------------------- pure functions
\* the leading 25 code points of the body
get_blurb_from_body(body) == SubSeq(body, 1, Min(BLURB_LEN, Len(body)))

get_cluster_radius_meters(zoom) == FIFTY_PX_IN_METERS_AT_ZOOM_0 \div Pow2(zoom)

merge_clusters_first(x1, y1, size1, x2, y2, size2) == << x1, y1, size1 >>

merge_clusters(x1, y1, size1, x2, y2, size2) ==
    << (size1 * x1 + size2 * x2) \div (size1 + size2),
       (size1 * y1 + size2 * y2) \div (size1 + size2),
       size1 + size2 >>

Dist2(p, q) == (p[1] - q[1]) * (p[1] - q[1]) + (p[2] - q[2]) * (p[2] - q[2])

WithinRadius_any(p, q, radius) == TRUE

\* GEOSEARCH ... BYRADIUS: members within the radius, the boundary included
WithinRadius(p, q, radius) == Dist2(p, q) <= (radius * Scale) * (radius * Scale)

\* the stored coordinate of grid point g
Stored(g) == << g[1] * Scale, g[2] * Scale >>


\* -------------------------------------------------------------------- state
VARIABLES
    geo,        \* geo[z][id]: centroid of cluster id in geo-set "Z<z>", or Absent
    size,       \* size[z][id]: the string "size:Z<z>:<id>", 0 when missing
    blurb,      \* blurb[id]: the string "blurb:<id>", NoBlurb when missing
    lock,       \* lock[name]: the task whose lease holds the named lock
    members,    \* history: members[z][id] = ids of the posts folded into the cluster
    posts,      \* the store's posts collection, by _id
    votes,      \* the store's votes collection: a set of rows
    users,      \* the store's users collection, by _id
    nextId,     \* the next id gen_id draws (ids are fresh)
    today,      \* days since the epoch
    pc,         \* pc[t]: the await a task stands at
    loc,        \* loc[t]: the task's local variables
    sent,       \* events handed to the transport for broadcast
    ack,        \* the latest acknowledgement sent to a client
    trail,      \* history: trail[id] = what has happened to post id so far
    users_geo,  \* users_geo[uid]: position of uid in geo-set "users", or Absent
    avatar,     \* avatar[uid]: the string "avatar:<uid>", 0 when missing
    username,   \* username[uid]: the string "username:<uid>", "" when missing
    socket,     \* socket[sid]: the string "socket:<sid>", NoUid when missing
    plan,       \* the layer, rect and point a fan-out run is about
    rooms,      \* rooms[c]: the rooms connection c has joined
    inbox,      \* inbox[c]: the connections whose event was emitted to connection c
    emitted,    \* the connections that have broadcast their event
    got,        \* got[c]: how many user-move events were emitted to connection c
    runs,       \* history: how many runs of run_nightly_cleanup have completed
    snap,       \* history: the cluster index as the first completed run left it
    resp,       \* resp[c]: the latest acknowledgement sent to c: status and payload
    due,        \* history: due[c] = the posts a view-shift of c was to return
    wasOne      \* history: wasOne[c] = the cluster ids whose size on the zoom
                \* c queries has been 1 at some moment of c's running query

idxVars == << geo, size, blurb, lock, members >>
storeVars == << posts, votes, users, nextId, today >>
taskVars == << pc, loc >>
outVars == << sent, ack, trail >>
onlineVars == << users_geo, avatar, username, socket >>
roomVars == << plan, rooms, inbox, emitted, got >>
histVars == << runs, snap, wasOne >>
viewVars == << resp, due >>
vars == << geo, size, blurb, lock, members, posts, votes, users, nextId, today,
           pc, loc, sent, ack, trail,
           users_geo, avatar, username, socket, plan, rooms, inbox, emitted, got,
           runs, snap, resp, due, wasOne >>

ADD_LOCK == "add post pt"
DEL_LOCK == "delete post"
LockNames == {ADD_LOCK, DEL_LOCK}

NoDoc == [present |-> FALSE, pos |-> Absent, author |-> NoUid, body |-> <<>>,
          likes |-> 0, dislikes |-> 0, views |-> 0, expiry |-> 0, created |-> 0]

NoResp == << "none", {} >>

NoUser == [present |-> FALSE, username |-> "", avatar |-> 0]

EmptyNear == [z \in Zooms |-> [i \in Ids |-> Absent]]
EmptySizes == [z \in Zooms |-> [i \in Ids |-> 0]]
EmptyMembers == [z \in Zooms |-> [i \in Ids |-> {}]]

NoLoc == [op |-> "none", id |-> 0, pos |-> Absent, body |-> <<>>, blurb |-> NoBlurb,
          uid |-> NoUid, vote |-> "none", prev |-> "none", avatar |-> 0,
          nearby |-> EmptyNear, nsize |-> EmptySizes, nmem |-> [z \in Zooms |-> {}],
          delb |-> {}, setb |-> FALSE, sizes |-> [z \in Zooms |-> 0],
          cursor |-> {}, zoom |-> 0, within |-> [left |-> 0, bottom |-> 0, right |-> 0, top |-> 0],
          found |-> {}, clusters |-> {}, name |-> "", old |-> Absent,
          conn |-> NoTask, layer |-> 0, view |-> << >>, k |-> 0, before |-> << >>,
          seen |-> [u \in Uids |-> 0]]

NearIds(near, z) == {i \in Ids : near[z][i] # Absent}

Mark(id, m) == [trail EXCEPT ![id] = @ \cup {m}]

\* a panic: the task is gone with its locals; a lease it held is nobody's and
\* stays until it expires
Orphaned(t) == [n \in LockNames |-> IF lock[n] = t THEN Orphan ELSE lock[n]]

\* ------------------------------------------------- cluster index: insert
\* cache.rs add_post_pt, entered with loc[t].id, .pos and .blurb set.

\* the retry loop around lock_manager.lock: leaves it only with the lease
AddLock(t) ==
    /\ pc[t] = "add_lock"
    /\ lock[ADD_LOCK] = NoTask
    /\ lock' = [lock EXCEPT ![ADD_LOCK] = t]
    /\ pc' = [pc EXCEPT ![t] = "add_geoquery"]
    /\ UNCHANGED << geo, size, blurb, members, storeVars, loc, outVars, onlineVars, roomVars, histVars, viewVars >>

\* pipe_geoquery: GEOSEARCH BYRADIUS WITHCOORD on every cached zoom
geoquery_radius(z, p) ==
    [i \in Ids |-> IF geo[z][i] # Absent
                      /\ WithinRadius(geo[z][i], p, get_cluster_radius_meters(z))
                   THEN geo[z][i] ELSE Absent]

AddGeoquery(t) ==
    /\ pc[t] = "add_geoquery"
    /\ loc' = [loc EXCEPT ![t].nearby =
                  [z \in Zooms |-> geoquery_radius(z, loc[t].pos)]]
    /\ pc' = [pc EXCEPT ![t] = "add_nearby"]
    /\ UNCHANGED << idxVars, storeVars, outVars, onlineVars, roomVars, histVars, viewVars >>

\* pipe_nearby: per nearby cluster GET its size, ZREM it, DEL its size.  The
\* reply is parsed as Vec<usize>: a missing size makes the unwrap panic, after
\* the batch has run.
AddNearby(t) ==
    /\ pc[t] = "add_nearby"
    /\ LET near == loc[t].nearby
           hit(z, i) == near[z][i] # Absent
       IN /\ geo' = [z \in Zooms |-> [i \in Ids |->
                        IF hit(z, i) THEN Absent ELSE geo[z][i]]]
          /\ size' = [z \in Zooms |-> [i \in Ids |->
                        IF hit(z, i) THEN 0 ELSE size[z][i]]]
          /\ members' = [z \in Zooms |-> [i \in Ids |->
                        IF hit(z, i) THEN {} ELSE members[z][i]]]
          /\ IF \E z \in Zooms : \E i \in Ids : hit(z, i) /\ size[z][i] = 0
             THEN /\ pc' = [pc EXCEPT ![t] = "idle"]
                  /\ loc' = [loc EXCEPT ![t] = NoLoc]
                  /\ lock' = Orphaned(t)
                  /\ trail' = Mark(loc[t].id, "failed")
             ELSE /\ pc' = [pc EXCEPT ![t] = "add_save"]
                  /\ loc' = [loc EXCEPT
                         ![t].nsize = [z \in Zooms |-> [i \in Ids |->
                                          IF hit(z, i) THEN size[z][i] ELSE 0]],
                         ![t].nmem = [z \in Zooms |->
                                          UNION {members[z][i] : i \in NearIds(near, z)}]]
                  /\ UNCHANGED << lock, trail >>
    /\ UNCHANGED << blurb, storeVars, sent, ack, onlineVars, roomVars, histVars, viewVars >>

RECURSIVE MergeAll(_, _, _, _)
MergeAll(acc, ids, npos, nsz) ==
    IF ids = {} THEN acc
    ELSE LET i == CHOOSE k \in ids : \A j \in ids : k <= j
         IN MergeAll(merge_clusters(acc[1], acc[2], acc[3],
                                    npos[i][1], npos[i][2], nsz[i]),
                     ids \ {i}, npos, nsz)

\* the cluster written on zoom z: the new point with every nearby cluster merged in
NewCluster(l, z) ==
    MergeAll(<< l.pos[1], l.pos[2], 1 >>, NearIds(l.nearby, z), l.nearby[z], l.nsize[z])

blurb_required_never(sizes) == FALSE

\* a blurb is required if the cluster is a single on any zoom
blurb_required(sizes) == \E z \in Zooms : sizes[z] = 1

\* a geoquery_post_pts call of connection c is between its start and its size read
Querying(c) == pc[c] \in {"vs_search", "vs_sizes"}

\* pipe_save: GEOADD + SET size of the new cluster on every zoom, then GET the
\* size of every deleted cluster id on every zoom.  blurb_required is decided
\* from that reply; the blurb of the new cluster is saved unless it merged on
\* every zoom.
AddSave(t) ==
    /\ pc[t] = "add_save"
    /\ LET l == loc[t]
           cid == l.id
           deleted == UNION {NearIds(l.nearby, z) : z \in Zooms}
           sizeAfter(z, i) == IF i = cid THEN NewCluster(l, z)[3] ELSE size[z][i]
       IN /\ geo' = [z \in Zooms |-> [i \in Ids |->
                        IF i = cid THEN << NewCluster(l, z)[1], NewCluster(l, z)[2] >>
                        ELSE geo[z][i]]]
          /\ size' = [z \in Zooms |-> [i \in Ids |-> sizeAfter(z, i)]]
          /\ members' = [z \in Zooms |-> [i \in Ids |->
                        IF i = cid THEN {cid} \cup l.nmem[z] ELSE members[z][i]]]
          /\ loc' = [loc EXCEPT
                 ![t].delb = {i \in deleted :
                               ~blurb_required([z \in Zooms |-> sizeAfter(z, i)])},
                 ![t].setb = \E z \in Zooms : NearIds(l.nearby, z) = {}]
          /\ wasOne' = [c \in Tasks |->
                          IF Querying(c)
                          THEN wasOne[c] \cup {i \in Ids : sizeAfter(loc[c].zoom, i) = 1}
                          ELSE wasOne[c]]
    /\ pc' = [pc EXCEPT ![t] = "add_blurbs"]
    /\ UNCHANGED << blurb, lock, storeVars, outVars, onlineVars, roomVars, runs, snap, viewVars >>

\* pipe_blurbs: DEL the blurbs no longer required, then SET the new one
AddBlurbs(t) ==
    /\ pc[t] = "add_blurbs"
    /\ blurb' = [i \in Ids |->
                    IF i = loc[t].id /\ loc[t].setb THEN loc[t].blurb
                    ELSE IF i \in loc[t].delb THEN NoBlurb
                    ELSE blurb[i]]
    /\ trail' = Mark(loc[t].id, "indexed")
    /\ pc' = [pc EXCEPT ![t] = "add_unlock"]
    /\ UNCHANGED << geo, size, lock, members, storeVars, loc, sent, ack, onlineVars, roomVars, histVars, viewVars >>

\* lock_manager.unlock: deletes the lock only if it is still this lease
Unlock(name, t) == [lock EXCEPT ![name] = IF lock[name] = t THEN NoTask ELSE @]

\* what the caller of add_post_pt does on Ok(()), up to its next await:
\*  - socket.rs "post": broadcast new-post, the handler is over;
\*  - db.rs run_nightly_cleanup: back to the cursor;
\*  - a direct call of the cache API: nothing.
AfterAdd(t) ==
    CASE loc[t].op = "post" ->
            /\ sent' = sent \cup {<< "new-post", loc[t].id >>}
            /\ pc' = [pc EXCEPT ![t] = "idle"]
            /\ loc' = [loc EXCEPT ![t] = NoLoc]
            /\ UNCHANGED << ack, trail >>
      [] loc[t].op = "nightly" ->
            /\ pc' = [pc EXCEPT ![t] = "night_next"]
            /\ loc' = [loc EXCEPT ![t] = [NoLoc EXCEPT !.op = "nightly",
                                                       !.cursor = loc[t].cursor]]
            /\ UNCHANGED outVars
      [] OTHER ->
            /\ pc' = [pc EXCEPT ![t] = "idle"]
            /\ loc' = [loc EXCEPT ![t] = NoLoc]
            /\ UNCHANGED outVars

\* lock_manager.unlock(&lock).await, then Ok(()) to the caller
AddUnlock(t) ==
    /\ pc[t] = "add_unlock"
    /\ lock' = Unlock(ADD_LOCK, t)
    /\ AfterAdd(t)
    /\ UNCHANGED << geo, size, blurb, members, storeVars, onlineVars, roomVars, histVars, viewVars >>

\* ------------------------------------------------- cluster index: delete
\* cache.rs del_post, entered with loc[t].id set.
DelLock(t) ==
    /\ pc[t] = "del_lock"
    /\ lock[DEL_LOCK] = NoTask
    /\ lock' = [lock EXCEPT ![DEL_LOCK] = t]
    /\ pc' = [pc EXCEPT ![t] = "del_sizes"]
    /\ UNCHANGED << geo, size, blurb, members, storeVars, loc, outVars, onlineVars, roomVars, histVars, viewVars >>

\* pipe_sizes: GET the size of the cluster with this id on every zoom
DelSizes(t) ==
    /\ pc[t] = "del_sizes"
    /\ loc' = [loc EXCEPT ![t].sizes = [z \in Zooms |-> size[z][loc[t].id]]]
    /\ pc' = [pc EXCEPT ![t] = "del_del"]
    /\ UNCHANGED << idxVars, storeVars, outVars, onlineVars, roomVars, histVars, viewVars >>

DelDel_zrem(t) ==
    /\ pc[t] = "del_del"
    /\ LET id == loc[t].id
           gone(z, i) == i = id /\ loc[t].sizes[z] = 1
       IN /\ geo' = [z \in Zooms |-> [i \in Ids |->
                        IF gone(z, i) THEN Absent ELSE geo[z][i]]]
          /\ size' = size
          /\ members' = [z \in Zooms |-> [i \in Ids |->
                        IF gone(z, i) THEN {} ELSE members[z][i]]]
          /\ blurb' = [blurb EXCEPT ![id] = NoBlurb]
          /\ trail' = Mark(id, "dropped")
    /\ pc' = [pc EXCEPT ![t] = "del_unlock"]
    /\ UNCHANGED << lock, storeVars, loc, sent, ack, onlineVars, roomVars, histVars, viewVars >>

\* pipe_del: delete the clusters read with size 1; always delete the blurb
DelDel(t) ==
    /\ pc[t] = "del_del"
    /\ LET id == loc[t].id
           gone(z, i) == i = id /\ loc[t].sizes[z] = 1
       IN /\ geo' = [z \in Zooms |-> [i \in Ids |->
                        IF gone(z, i) THEN Absent ELSE geo[z][i]]]
          /\ size' = [z \in Zooms |-> [i \in Ids |->
                        IF gone(z, i) THEN 0 ELSE size[z][i]]]
          /\ members' = [z \in Zooms |-> [i \in Ids |->
                        IF gone(z, i) THEN {} ELSE members[z][i]]]
          /\ blurb' = [blurb EXCEPT ![id] = NoBlurb]
          /\ trail' = Mark(id, "dropped")
    /\ pc' = [pc EXCEPT ![t] = "del_unlock"]
    /\ UNCHANGED << lock, storeVars, loc, sent, ack, onlineVars, roomVars, histVars, viewVars >>

DelUnlock(t) ==
    /\ pc[t] = "del_unlock"
    /\ lock' = Unlock(DEL_LOCK, t)
    /\ pc' = [pc EXCEPT ![t] = "idle"]
    /\ loc' = [loc EXCEPT ![t] = NoLoc]
    /\ UNCHANGED << geo, size, blurb, members, storeVars, outVars, onlineVars, roomVars, histVars, viewVars >>


\* ------------------------------------------------------ faults and leases
InCacheCall(t) ==
    pc[t] \in {"add_geoquery", "add_nearby", "add_save", "add_blurbs",
               "del_sizes", "del_del"}

InAdd(t) == pc[t] \in {"add_geoquery", "add_nearby", "add_save", "add_blurbs"}

\* a cache command fails: query_async(..).await.unwrap() panics, the batch is
\* not applied, and nothing after it runs (the lock is not released)
CacheFault(t) ==
    /\ InCacheCall(t)
    /\ pc' = [pc EXCEPT ![t] = "idle"]
    /\ loc' = [loc EXCEPT ![t] = NoLoc]
    /\ lock' = Orphaned(t)
    /\ trail' = IF InAdd(t) THEN Mark(loc[t].id, "failed") ELSE trail
    /\ UNCHANGED << geo, size, blurb, members, storeVars, sent, ack, onlineVars, roomVars, histVars, viewVars >>

LeaseExpire_never(name) ==
    /\ lock[name] # NoTask
    /\ UNCHANGED vars

\* the 1000 ms lease of a lock runs out while it is held
LeaseExpire(name) ==
    /\ lock[name] # NoTask
    /\ lock' = [lock EXCEPT ![name] = NoTask]
    /\ UNCHANGED << geo, size, blurb, members, storeVars, taskVars, outVars, onlineVars, roomVars, histVars, viewVars >>

\* ------------------------------------------- direct calls of the cache API
\* add_post_pt(cluster_id, x, y, blurb) with a fresh id, as every caller gives
ApiAdd(t, g, body) ==
    /\ pc[t] = "idle"
    /\ nextId <= MaxPosts
    /\ nextId' = nextId + 1
    /\ loc' = [loc EXCEPT ![t] = [NoLoc EXCEPT !.op = "api", !.id = nextId,
                                               !.pos = Stored(g),
                                               !.blurb = get_blurb_from_body(body)]]
    /\ pc' = [pc EXCEPT ![t] = "add_lock"]
    /\ UNCHANGED << idxVars, posts, votes, users, today, outVars, onlineVars, roomVars, histVars, viewVars >>

\* del_post(post_id, pos)
ApiDel(t, id) ==
    /\ pc[t] = "idle"
    /\ loc' = [loc EXCEPT ![t] = [NoLoc EXCEPT !.op = "api", !.id = id]]
    /\ pc' = [pc EXCEPT ![t] = "del_lock"]
    /\ UNCHANGED << idxVars, storeVars, outVars, onlineVars, roomVars, histVars, viewVars >>

\* --------------------------------------------------- store: posts and votes
\* the ids of the documents of the posts collection
LivePosts == {i \in Ids : posts[i].present}

\* a filter {"field": value} of delete_many / find_one on the votes collection
MatchesField(row, field, value) == field \in DOMAIN row /\ row[field] = value

\* db.rs delete: delete_one {_id}
StoreDelete(id) == [posts EXCEPT ![id] = NoDoc]

\* db.rs delete_post, second statement: delete_many {"postId": post_id}
DeletePostVotes(id) == {r \in votes : ~MatchesField(r, "postId", id)}

\* ------------------------------------------------------ socket.rs: "post"
\* jwt None -> author None; a jwt that fails authenticate_jwt ends the handler
\* before anything happens.  insert_post draws the id and awaits insert_one.
PostStart(t, author, g, body) ==
    /\ pc[t] = "idle"
    /\ nextId <= MaxPosts
    /\ nextId' = nextId + 1
    /\ loc' = [loc EXCEPT ![t] = [NoLoc EXCEPT !.op = "post", !.id = nextId,
                                               !.uid = author, !.pos = Stored(g),
                                               !.body = body]]
    /\ pc' = [pc EXCEPT ![t] = "post_insert"]
    /\ UNCHANGED << idxVars, posts, votes, users, today, outVars, onlineVars, roomVars, histVars, viewVars >>

NewPostDoc(l) ==
    [present |-> TRUE, pos |-> l.pos, author |-> l.uid, body |-> l.body,
     likes |-> 0, dislikes |-> 0, views |-> 0,
     expiry |-> today + POST_LIFETIME, created |-> today]

PostInsert_announce(t) ==
    /\ pc[t] = "post_insert"
    /\ posts' = [posts EXCEPT ![loc[t].id] = NewPostDoc(loc[t])]
    /\ loc' = [loc EXCEPT ![t].blurb = get_blurb_from_body(loc[t].body)]
    /\ trail' = Mark(loc[t].id, "stored")
    /\ sent' = sent \cup {<< "new-post", loc[t].id >>}
    /\ pc' = [pc EXCEPT ![t] = "add_lock"]
    /\ UNCHANGED << idxVars, votes, users, nextId, today, ack, onlineVars, roomVars, histVars, viewVars >>

\* insert_one succeeded; the blurb is cut and add_post_pt is entered
PostInsert(t) ==
    /\ pc[t] = "post_insert"
    /\ posts' = [posts EXCEPT ![loc[t].id] = NewPostDoc(loc[t])]
    /\ loc' = [loc EXCEPT ![t].blurb = get_blurb_from_body(loc[t].body)]
    /\ trail' = Mark(loc[t].id, "stored")
    /\ pc' = [pc EXCEPT ![t] = "add_lock"]
    /\ UNCHANGED << idxVars, votes, users, nextId, today, sent, ack, onlineVars, roomVars, histVars, viewVars >>

\* insert_one failed: insert_post returns Err(()), the handler emits nothing
PostInsertFault(t) ==
    /\ pc[t] = "post_insert"
    /\ pc' = [pc EXCEPT ![t] = "idle"]
    /\ loc' = [loc EXCEPT ![t] = NoLoc]
    /\ UNCHANGED << idxVars, storeVars, outVars, onlineVars, roomVars, histVars, viewVars >>

\* ----------------------------------------------- socket.rs: "delete-post"
BadToken == "bad"
NoAck == << "none", 0, "none" >>

\* authenticate_jwt, then the await of db.get
DelpStart(t, tok, id) ==
    /\ pc[t] = "idle"
    /\ IF tok = BadToken
       THEN /\ ack' = << "delete-post", id, "401" >>
            /\ UNCHANGED << taskVars >>
       ELSE /\ loc' = [loc EXCEPT ![t] = [NoLoc EXCEPT !.op = "delete-post",
                                                        !.id = id, !.uid = tok]]
            /\ pc' = [pc EXCEPT ![t] = "delp_get"]
            /\ UNCHANGED ack
    /\ UNCHANGED << idxVars, storeVars, sent, trail, onlineVars, roomVars, histVars, viewVars >>

DelpGet_anyone(t) ==
    /\ pc[t] = "delp_get"
    /\ LET id == loc[t].id
       IN IF ~posts[id].present
          THEN /\ ack' = << "delete-post", id, "404" >>
               /\ pc' = [pc EXCEPT ![t] = "idle"]
               /\ loc' = [loc EXCEPT ![t] = NoLoc]
          ELSE /\ pc' = [pc EXCEPT ![t] = "delp_delete"]
               /\ loc' = [loc EXCEPT ![t].pos = posts[id].pos]
               /\ UNCHANGED ack
    /\ UNCHANGED << idxVars, storeVars, sent, trail, onlineVars, roomVars, histVars, viewVars >>

\* db.get::<Post>: no such post -> 404; not the author -> 401; else delete_post
DelpGet(t) ==
    /\ pc[t] = "delp_get"
    /\ LET id == loc[t].id
       IN IF ~posts[id].present
          THEN /\ ack' = << "delete-post", id, "404" >>
               /\ pc' = [pc EXCEPT ![t] = "idle"]
               /\ loc' = [loc EXCEPT ![t] = NoLoc]
          ELSE IF posts[id].author # loc[t].uid
          THEN /\ ack' = << "delete-post", id, "401" >>
               /\ pc' = [pc EXCEPT ![t] = "idle"]
               /\ loc' = [loc EXCEPT ![t] = NoLoc]
          ELSE /\ pc' = [pc EXCEPT ![t] = "delp_delete"]
               /\ loc' = [loc EXCEPT ![t].pos = posts[id].pos]
               /\ UNCHANGED ack
    /\ UNCHANGED << idxVars, storeVars, sent, trail, onlineVars, roomVars, histVars, viewVars >>

\* db.rs delete_post: delete the document ...
DelpDelete(t) ==
    /\ pc[t] = "delp_delete"
    /\ posts' = StoreDelete(loc[t].id)
    /\ trail' = Mark(loc[t].id, "removed")
    /\ pc' = [pc EXCEPT ![t] = "delp_votes"]
    /\ UNCHANGED << idxVars, votes, users, nextId, today, loc, sent, ack, onlineVars, roomVars, histVars, viewVars >>

\* ... then its votes; on Ok broadcast post-delete and acknowledge
DelpVotes(t) ==
    /\ pc[t] = "delp_votes"
    /\ votes' = DeletePostVotes(loc[t].id)
    /\ sent' = sent \cup {<< "post-delete", loc[t].id >>}
    /\ ack' = << "delete-post", loc[t].id, "ok" >>
    /\ pc' = [pc EXCEPT ![t] = "idle"]
    /\ loc' = [loc EXCEPT ![t] = NoLoc]
    /\ UNCHANGED << idxVars, posts, users, nextId, today, trail, onlineVars, roomVars, histVars, viewVars >>

\* a store command of the handler fails: db.get -> 404, delete_post -> 500
DelpFault(t) ==
    /\ pc[t] \in {"delp_get", "delp_delete", "delp_votes"}
    /\ ack' = << "delete-post", loc[t].id,
                             IF pc[t] = "delp_get" THEN "404" ELSE "500" >>
    /\ pc' = [pc EXCEPT ![t] = "idle"]
    /\ loc' = [loc EXCEPT ![t] = NoLoc]
    /\ UNCHANGED << idxVars, storeVars, sent, trail, onlineVars, roomVars, histVars, viewVars >>

\* ----------------------------------------- db.rs: run_nightly_cleanup
\* the cron job of start_nightly_cleanup_job fires
MaxRuns == 2
NightStart ==
    /\ pc[Cron] = "idle"
    /\ runs < MaxRuns
    /\ pc' = [pc EXCEPT ![Cron] = "night_delete"]
    /\ loc' = [loc EXCEPT ![Cron] = [NoLoc EXCEPT !.op = "nightly"]]
    /\ UNCHANGED << idxVars, storeVars, outVars, onlineVars, roomVars, histVars, viewVars >>

NightDelete_none ==
    /\ pc[Cron] = "night_delete"
    /\ pc' = [pc EXCEPT ![Cron] = "night_flush"]
    /\ UNCHANGED << idxVars, storeVars, loc, outVars, onlineVars, roomVars, histVars, viewVars >>

\* delete_many {expiry: {$lt: today()}}
NightDelete ==
    /\ pc[Cron] = "night_delete"
    /\ posts' = [i \in Ids |-> IF posts[i].present /\ posts[i].expiry < today
                               THEN NoDoc ELSE posts[i]]
    /\ trail' = [i \in Ids |-> IF posts[i].present /\ posts[i].expiry < today
                               THEN trail[i] \cup {"removed"} ELSE trail[i]]
    /\ pc' = [pc EXCEPT ![Cron] = "night_flush"]
    /\ UNCHANGED << idxVars, votes, users, nextId, today, loc, sent, ack, onlineVars, roomVars, histVars, viewVars >>

NightFlush_skip ==
    /\ pc[Cron] = "night_flush"
    /\ pc' = [pc EXCEPT ![Cron] = "night_find"]
    /\ UNCHANGED << idxVars, storeVars, loc, outVars, onlineVars, roomVars, histVars, viewVars >>

\* flush_all_posts: FLUSHALL on the server that also holds the two lock keys
NightFlush ==
    /\ pc[Cron] = "night_flush"
    /\ geo' = EmptyNear
    /\ size' = EmptySizes
    /\ blurb' = [i \in Ids |-> NoBlurb]
    /\ members' = EmptyMembers
    /\ lock' = [n \in LockNames |-> NoTask]
    /\ pc' = [pc EXCEPT ![Cron] = "night_find"]
    /\ UNCHANGED << storeVars, loc, outVars, onlineVars, roomVars, histVars, viewVars >>

\* find({}): the cursor over all remaining posts
NightFind ==
    /\ pc[Cron] = "night_find"
    /\ loc' = [loc EXCEPT ![Cron].cursor = {i \in Ids : posts[i].present}]
    /\ pc' = [pc EXCEPT ![Cron] = "night_next"]
    /\ UNCHANGED << idxVars, storeVars, outVars, onlineVars, roomVars, histVars, viewVars >>

\* all_posts.try_next(): the next post in natural (insertion) order is
\* re-inserted through add_post_pt; the job ends when the cursor is empty
NightNext ==
    /\ pc[Cron] = "night_next"
    /\ LET cur == loc[Cron].cursor
       IN IF cur = {}
          THEN /\ pc' = [pc EXCEPT ![Cron] = "idle"]
               /\ loc' = [loc EXCEPT ![Cron] = NoLoc]
               /\ runs' = runs + 1
               /\ snap' = IF runs = 0 THEN << geo, size, blurb >> ELSE snap
               /\ UNCHANGED wasOne
          ELSE LET i == CHOOSE k \in cur : \A j \in cur : k <= j
               IN /\ pc' = [pc EXCEPT ![Cron] = "add_lock"]
                  /\ loc' = [loc EXCEPT ![Cron] =
                                [NoLoc EXCEPT !.op = "nightly", !.id = i,
                                              !.pos = posts[i].pos,
                                              !.blurb = get_blurb_from_body(posts[i].body),
                                              !.cursor = cur \ {i}]]
                  /\ UNCHANGED histVars
    /\ UNCHANGED << idxVars, storeVars, outVars, onlineVars, roomVars, viewVars >>

\* a store command of the job fails: `?` returns the error and the closure's
\* unwrap panics
NightFault ==
    /\ pc[Cron] \in {"night_delete", "night_find"}
    /\ pc' = [pc EXCEPT ![Cron] = "idle"]
    /\ loc' = [loc EXCEPT ![Cron] = NoLoc]
    /\ UNCHANGED << idxVars, storeVars, outVars, onlineVars, roomVars, histVars, viewVars >>

\* time passes: POST_LIFETIME + 1 days at a step, enough for a fresh post to expire
MaxDay == 8
Tick ==
    /\ today + POST_LIFETIME + 1 <= MaxDay
    /\ today' = today + POST_LIFETIME + 1
    /\ UNCHANGED << idxVars, posts, votes, users, nextId, taskVars, outVars, onlineVars, roomVars, histVars, viewVars >>

\* ------------------------------------------------------- db.rs: votes
VoteKinds == {"like", "dislike", "none"}

get_lifetime_weight_flat(kind) ==
    CASE kind = "like" -> 1 [] kind = "dislike" -> -1 [] OTHER -> 0

\* types.rs VoteKind::get_lifetime_weight: days a vote adds to the expiry
get_lifetime_weight(kind) ==
    CASE kind = "like" -> 2 [] kind = "dislike" -> -1 [] OTHER -> 0

delta_likes_up(vote, prev) ==
    IF vote = "like" THEN 1 ELSE 0

delta_likes(vote, prev) ==
    IF vote = "like" THEN 1 ELSE IF prev = "like" THEN -1 ELSE 0

delta_dislikes(vote, prev) ==
    IF vote = "dislike" THEN 1 ELSE IF prev = "dislike" THEN -1 ELSE 0

\* the rows of a votes collection a filter {"post_id": post_id, "uid": uid} selects
RowsIn(rows, uid, id) ==
    {r \in rows : MatchesField(r, "post_id", id) /\ MatchesField(r, "uid", uid)}

VoteRows(uid, id) == RowsIn(votes, uid, id)

find_vote_none(rows, uid, id) == "none"

\* find_one on a votes collection, Ok(None) -> VoteKind::None
find_vote(rows, uid, id) ==
    IF RowsIn(rows, uid, id) = {} THEN "none"
    ELSE (CHOOSE r \in RowsIn(rows, uid, id) : TRUE).kind

\* get_vote
get_vote(uid, id) == find_vote(votes, uid, id)

\* update_one {_id} $inc likes, dislikes, expiry on a posts collection: nothing
\* happens when no post has the id
inc_counters(docs, id, vote, prev) ==
    IF docs[id].present
    THEN [docs EXCEPT ![id].likes = @ + delta_likes(vote, prev),
                      ![id].dislikes = @ + delta_dislikes(vote, prev),
                      ![id].expiry = @ + get_lifetime_weight(vote)
                                       - get_lifetime_weight(prev)]
    ELSE docs

\* the votes collection: delete_one for None, else update_one $set kind, upsert
set_row(rows, uid, id, vote) ==
    IF vote = "none"
    THEN rows \ RowsIn(rows, uid, id)
    ELSE (rows \ RowsIn(rows, uid, id))
           \cup {[post_id |-> id, uid |-> uid, kind |-> vote]}

\* insert_vote run from its first await to its return with no other request
\* in between: the posts and votes collections it leaves
insert_vote(docs, rows, uid, id, vote) ==
    LET prev == find_vote(rows, uid, id)
    IN IF vote = prev THEN << docs, rows >>
       ELSE << inc_counters(docs, id, vote, prev), set_row(rows, uid, id, vote) >>

\* the counters of a post stay within -MaxCount..MaxCount
MaxCount == 1

\* POST /vote/{post_id} with a token that authenticates: insert_vote is entered
VoteStart(t, uid, id, kind) ==
    /\ pc[t] = "idle"
    /\ loc' = [loc EXCEPT ![t] = [NoLoc EXCEPT !.op = "vote", !.uid = uid,
                                               !.id = id, !.vote = kind]]
    /\ pc' = [pc EXCEPT ![t] = "vote_get"]
    /\ UNCHANGED << idxVars, storeVars, outVars, onlineVars, roomVars, histVars, viewVars >>

\* let prev_vote = get_vote(..).await?; an equal vote returns Ok(()) here
VoteGet(t) ==
    /\ pc[t] = "vote_get"
    /\ LET prev == get_vote(loc[t].uid, loc[t].id)
       IN IF prev = loc[t].vote
          THEN /\ pc' = [pc EXCEPT ![t] = "idle"]
               /\ loc' = [loc EXCEPT ![t] = NoLoc]
          ELSE /\ pc' = [pc EXCEPT ![t] = "vote_inc"]
               /\ loc' = [loc EXCEPT ![t].prev = prev]
    /\ UNCHANGED << idxVars, storeVars, outVars, onlineVars, roomVars, histVars, viewVars >>

\* update_one {_id} $inc likes, dislikes, expiry: one atomic document update,
\* nothing happens when no post has the id; the counters are kept within cap
VoteIncUpTo(t, cap) ==
    /\ pc[t] = "vote_inc"
    /\ LET id == loc[t].id
           vote == loc[t].vote
           prev == loc[t].prev
       IN /\ posts[id].likes + delta_likes(vote, prev) \in -cap..cap
          /\ posts[id].dislikes + delta_dislikes(vote, prev) \in -cap..cap
          /\ posts' = inc_counters(posts, id, vote, prev)
    /\ pc' = [pc EXCEPT ![t] = "vote_row"]
    /\ UNCHANGED << idxVars, votes, users, nextId, today, loc, outVars, onlineVars, roomVars, histVars, viewVars >>

VoteInc(t) == VoteIncUpTo(t, MaxCount)

\* the votes collection: delete_one for None, else update_one $set kind, upsert
VoteRow(t) ==
    /\ pc[t] = "vote_row"
    /\ votes' = set_row(votes, loc[t].uid, loc[t].id, loc[t].vote)
    /\ pc' = [pc EXCEPT ![t] = "idle"]
    /\ loc' = [loc EXCEPT ![t] = NoLoc]
    /\ UNCHANGED << idxVars, posts, users, nextId, today, outVars, onlineVars, roomVars, histVars, viewVars >>

\* GET /posts/{post_id} with Increment-View: $inc views and expiry by one
MaxViews == 1
increment_view(id) ==
    /\ posts[id].present
    /\ posts[id].views < MaxViews
    /\ posts' = [posts EXCEPT ![id].views = @ + 1, ![id].expiry = @ + 1]
    /\ UNCHANGED << idxVars, votes, users, nextId, today, taskVars, outVars, onlineVars, roomVars, histVars, viewVars >>

\* delete_user(uid): delete the user document ...
DuStart(t, uid) ==
    /\ pc[t] = "idle"
    /\ loc' = [loc EXCEPT ![t] = [NoLoc EXCEPT !.op = "delete-user", !.uid = uid]]
    /\ pc' = [pc EXCEPT ![t] = "du_doc"]
    /\ UNCHANGED << idxVars, storeVars, outVars, onlineVars, roomVars, histVars, viewVars >>

DuDoc(t) ==
    /\ pc[t] = "du_doc"
    /\ users' = [users EXCEPT ![loc[t].uid] = NoUser]
    /\ pc' = [pc EXCEPT ![t] = "du_votes"]
    /\ UNCHANGED << idxVars, posts, votes, nextId, today, loc, outVars, onlineVars, roomVars, histVars, viewVars >>

\* ... then delete_many {"uid": uid} on votes
DuVotes(t) ==
    /\ pc[t] = "du_votes"
    /\ votes' = {r \in votes : ~MatchesField(r, "uid", loc[t].uid)}
    /\ pc' = [pc EXCEPT ![t] = "idle"]
    /\ loc' = [loc EXCEPT ![t] = NoLoc]
    /\ UNCHANGED << idxVars, posts, users, nextId, today, outVars, onlineVars, roomVars, histVars, viewVars >>

\* ------------------------------------------- cache.rs: the online-user index
NoAvatar == 0
Avatars == {1, 2}
NoName == ""

\* add_user: GEOADD users, SET avatar, SET username if any, SET socket -- one
\* pipeline; the socket id is the connection's
add_user(t, uid, g, av, name) ==
    /\ pc[t] = "idle"
    /\ users_geo' = [users_geo EXCEPT ![uid] = g]
    /\ avatar' = [avatar EXCEPT ![uid] = av]
    /\ username' = IF name # NoName THEN [username EXCEPT ![uid] = name] ELSE username
    /\ socket' = [socket EXCEPT ![t] = uid]
    /\ UNCHANGED << idxVars, storeVars, taskVars, outVars, roomVars, histVars, viewVars >>

\* edit_user_if_exists(uid, Some(avatar), None)
EditStart(t, uid, av) ==
    /\ pc[t] = "idle"
    /\ loc' = [loc EXCEPT ![t] = [NoLoc EXCEPT !.op = "edit", !.uid = uid, !.avatar = av]]
    /\ pc' = [pc EXCEPT ![t] = "edit_exists"]
    /\ UNCHANGED << idxVars, storeVars, outVars, onlineVars, roomVars, histVars, viewVars >>

\* user_exists: EXISTS avatar:<uid>; edit_user_if_exists returns Ok when there
\* is none, and db.edit_user (op "edit-user") goes on to the store
EditExists(t) ==
    /\ pc[t] = "edit_exists"
    /\ IF avatar[loc[t].uid] = NoAvatar
       THEN IF loc[t].op = "edit-user"
            THEN /\ pc' = [pc EXCEPT ![t] = "edit_store"]
                 /\ UNCHANGED loc
            ELSE /\ pc' = [pc EXCEPT ![t] = "idle"]
                 /\ loc' = [loc EXCEPT ![t] = NoLoc]
       ELSE /\ pc' = [pc EXCEPT ![t] = "edit_set"]
            /\ UNCHANGED loc
    /\ UNCHANGED << idxVars, storeVars, outVars, onlineVars, roomVars, histVars, viewVars >>

\* the pipeline with SET avatar if an avatar is given and SET username if a
\* username is given
EditSet(t) ==
    /\ pc[t] = "edit_set"
    /\ avatar' = IF loc[t].avatar # NoAvatar
                 THEN [avatar EXCEPT ![loc[t].uid] = loc[t].avatar] ELSE avatar
    /\ username' = IF loc[t].name # NoName
                   THEN [username EXCEPT ![loc[t].uid] = loc[t].name] ELSE username
    /\ IF loc[t].op = "edit-user"
       THEN /\ pc' = [pc EXCEPT ![t] = "edit_store"]
            /\ UNCHANGED loc
       ELSE /\ pc' = [pc EXCEPT ![t] = "idle"]
            /\ loc' = [loc EXCEPT ![t] = NoLoc]
    /\ UNCHANGED << idxVars, storeVars, outVars, users_geo, socket, roomVars, histVars, viewVars >>

\* the pipeline of del_user(uid, socket_id): ZREM users, DEL avatar, username, socket
DelUserPipe(uid, sid) ==
    /\ users_geo' = [users_geo EXCEPT ![uid] = Absent]
    /\ avatar' = [avatar EXCEPT ![uid] = NoAvatar]
    /\ username' = [username EXCEPT ![uid] = NoName]
    /\ socket' = [socket EXCEPT ![sid] = NoUid]

del_user(t, uid) ==
    /\ pc[t] = "idle"
    /\ DelUserPipe(uid, t)
    /\ UNCHANGED << idxVars, storeVars, taskVars, outVars, roomVars, histVars, viewVars >>

\* del_user_from_socket(socket_id): GET socket:<sid>, None ends it
SockGet(t) ==
    /\ pc[t] = "idle"
    /\ socket[t] # NoUid
    /\ loc' = [loc EXCEPT ![t] = [NoLoc EXCEPT !.op = "disconnect", !.uid = socket[t]]]
    /\ pc' = [pc EXCEPT ![t] = "sock_del"]
    /\ UNCHANGED << idxVars, storeVars, outVars, onlineVars, roomVars, histVars, viewVars >>

\* ... Some(uid): del_user(uid, socket_id)
SockDel(t) ==
    /\ pc[t] = "sock_del"
    /\ DelUserPipe(loc[t].uid, t)
    /\ pc' = [pc EXCEPT ![t] = "idle"]
    /\ loc' = [loc EXCEPT ![t] = NoLoc]
    /\ UNCHANGED << idxVars, storeVars, outVars, roomVars, histVars, viewVars >>

\* ------------------------------------------------ socket.rs: on_disconnect
\* get_uid_from_socket(socket_id): GET socket:<sid>; None ends the handler
DiscStart(t) ==
    /\ pc[t] = "idle"
    /\ IF socket[t] = NoUid
       THEN UNCHANGED << pc, loc >>
       ELSE /\ loc' = [loc EXCEPT ![t] = [NoLoc EXCEPT !.op = "disconnect", !.uid = socket[t]]]
            /\ pc' = [pc EXCEPT ![t] = "disc_pos"]
    /\ UNCHANGED << idxVars, storeVars, outVars, onlineVars, roomVars, histVars, viewVars >>

\* get_cache_pos_and_avatar(uid): anything but Ok(Some(((x, y), _))) ends the
\* handler
DiscPos(t) ==
    /\ pc[t] = "disc_pos"
    /\ IF avatar[loc[t].uid] = NoAvatar \/ users_geo[loc[t].uid] = Absent
       THEN /\ pc' = [pc EXCEPT ![t] = "idle"]
            /\ loc' = [loc EXCEPT ![t] = NoLoc]
       ELSE /\ pc' = [pc EXCEPT ![t] = "disc_del"]
            /\ loc' = [loc EXCEPT ![t].pos = users_geo[loc[t].uid]]
    /\ UNCHANGED << idxVars, storeVars, outVars, onlineVars, roomVars, histVars, viewVars >>

\* delete_user_from_cache(Some(uid), socket_id) returns and
\* broadcast_at([x, y], "user-leave", false, uid) follows with no await between
DiscDel(t) ==
    /\ pc[t] = "disc_del"
    /\ DelUserPipe(loc[t].uid, t)
    /\ sent' = sent \cup {<< "user-leave", loc[t].uid >>}
    /\ pc' = [pc EXCEPT ![t] = "idle"]
    /\ loc' = [loc EXCEPT ![t] = NoLoc]
    /\ UNCHANGED << idxVars, storeVars, ack, trail, roomVars, histVars, viewVars >>

\* ------------------------------------------------ socket.rs: rooms, fan-out
\* Coordinates of this part are counted in sides of a tile of the last layer:
\* one unit is 2 * WORLD_MAX_BOUND / 2^MAX_TILE_LAYER degrees, every tile
\* corner of every layer is a whole number of units, and a point between two
\* corners compares with every corner as the whole number below it does.
WORLD_MAX_BOUND == 180
MAX_TILE_LAYER == 19
Layers == 0..MAX_TILE_LAYER
HalfWorld == Pow2(MAX_TILE_LAYER - 1)

\* (WORLD_MAX_BOUND * 2.0) / 2^tile_layer, in units
tile_size(tile_layer) == Pow2(MAX_TILE_LAYER - tile_layer)

\* one unit is DegNum / DegDen hundred-thousandths of a degree, in lowest terms
DegNum == (WORLD_MAX_BOUND * 2 * 100000) \div Gcd(WORLD_MAX_BOUND * 2 * 100000,
                                                   Pow2(MAX_TILE_LAYER))
DegDen == Pow2(MAX_TILE_LAYER) \div Gcd(WORLD_MAX_BOUND * 2 * 100000,
                                        Pow2(MAX_TILE_LAYER))

\* (x * 100000.0).round() / 100000.0 of the coordinate of k units, as a count
\* of hundred-thousandths of a degree; f64::round rounds a half away from zero
to_5_decimals(k) ==
    LET a == IF k < 0 THEN -k ELSE k
        n == (a \div DegDen) * DegNum
               + (2 * (a % DegDen) * DegNum + DegDen) \div (2 * DegDen)
    IN IF k < 0 THEN -n ELSE n

\* format!("{} : {} : {}", zoom_level, to_5_decimals(left), to_5_decimals(bottom))
room_name(zoom_level, left, bottom) ==
    << zoom_level, to_5_decimals(left), to_5_decimals(bottom) >>

\* ((a) / tile_size).round() as usize, a >= 0
RoundDiv(a, b) == (2 * a + b) \div (2 * b)

\* join_rooms: the rooms of the width x height tiles from the rect's south-west corner
join_rooms(tile_layer, aligned_rect) ==
    LET ts == tile_size(tile_layer)
        width == RoundDiv(aligned_rect.right - aligned_rect.left, ts)
        height == RoundDiv(aligned_rect.top - aligned_rect.bottom, ts)
    IN {room_name(tile_layer, aligned_rect.left + x * ts, aligned_rect.bottom + y * ts) :
           x \in 0..(width - 1), y \in 0..(height - 1)}

UpperHalf_strict(x, mid) == x > mid

\* if *x >= mid_x { area.left = mid_x } else { area.right = mid_x }
UpperHalf(x, mid) == x >= mid

\* the loop of broadcast_at_multiple over tile_layer..=MAX_TILE_LAYER for one point
RECURSIVE Descent(_, _, _, _)
Descent(x, y, area, tile_layer) ==
    IF tile_layer > MAX_TILE_LAYER THEN {}
    ELSE LET mid_x == (area.left + area.right) \div 2
             mid_y == (area.top + area.bottom) \div 2
             next == [left |-> IF UpperHalf(x, mid_x) THEN mid_x ELSE area.left,
                      right |-> IF UpperHalf(x, mid_x) THEN area.right ELSE mid_x,
                      bottom |-> IF UpperHalf(y, mid_y) THEN mid_y ELSE area.bottom,
                      top |-> IF UpperHalf(y, mid_y) THEN area.top ELSE mid_y]
         IN {room_name(tile_layer, next.left, next.bottom)}
              \cup Descent(x, y, next, tile_layer + 1)

World == [left |-> -HalfWorld, right |-> HalfWorld,
          top |-> HalfWorld, bottom |-> -HalfWorld]

\* the rooms broadcast_at_multiple emits to for the points pts
Targets(pts) ==
    {room_name(0, -HalfWorld, -HalfWorld)}
       \cup UNION {Descent(p[1], p[2], World, 1) : p \in pts}

\* view-shift with one valid rect: leave_all, then join_rooms
ViewShift(c) ==
    /\ emitted = {}
    /\ rooms' = [rooms EXCEPT ![c] = join_rooms(plan.layer, plan.rect)]
    /\ UNCHANGED << idxVars, storeVars, taskVars, outVars, onlineVars,
                    plan, inbox, emitted, got, histVars, viewVars >>

\* view-shift with no rect in the view: leave_all
ViewLeave(c) ==
    /\ emitted = {}
    /\ rooms[c] # {}
    /\ rooms' = [rooms EXCEPT ![c] = {}]
    /\ UNCHANGED << idxVars, storeVars, taskVars, outVars, onlineVars,
                    plan, inbox, emitted, got, histVars, viewVars >>

\* broadcast_at(io, pos, event, false, data) on connection c: the event goes to
\* every other connection that is in one of the target rooms
BroadcastAt(c) ==
    /\ c \notin emitted
    /\ emitted' = emitted \cup {c}
    /\ inbox' = [r \in Tasks |->
                    IF r # c /\ rooms[r] \cap Targets({plan.pos}) # {}
                    THEN inbox[r] \cup {c} ELSE inbox[r]]
    /\ UNCHANGED << idxVars, storeVars, taskVars, outVars, onlineVars, plan, rooms, got,
                    histVars, viewVars >>

\* ------------------------------------------------- socket.rs: "move"
\* move {jwt, pos} with a token that authenticates: set_user_pos(uid, x, y)
SetPosStart(t, uid, g) ==
    /\ pc[t] = "idle"
    /\ loc' = [loc EXCEPT ![t] = [NoLoc EXCEPT !.op = "move", !.uid = uid, !.pos = g]]
    /\ pc' = [pc EXCEPT ![t] = "pos_get"]
    /\ UNCHANGED << idxVars, storeVars, outVars, onlineVars, roomVars, histVars, viewVars >>

\* get_pos_and_avatar: GEOPOS + GET avatar in one pipeline; a Nil avatar is
\* Ok(None), a Nil position fails to parse: both end set_user_pos with Err(())
SetPosGet(t) ==
    /\ pc[t] = "pos_get"
    /\ IF avatar[loc[t].uid] = NoAvatar \/ users_geo[loc[t].uid] = Absent
       THEN /\ pc' = [pc EXCEPT ![t] = "idle"]
            /\ loc' = [loc EXCEPT ![t] = NoLoc]
       ELSE /\ pc' = [pc EXCEPT ![t] = "pos_add"]
            /\ loc' = [loc EXCEPT ![t].old = users_geo[loc[t].uid]]
    /\ UNCHANGED << idxVars, storeVars, outVars, onlineVars, roomVars, histVars, viewVars >>

Reached_all(c, targets) == {r \in Tasks : rooms[r] # {} /\ rooms[r] \cap targets # {}}

\* the connections other than c that are in one of the rooms: what one emit of
\* the transport to the union of the rooms reaches, each connection once
Reached(c, targets) ==
    {r \in Tasks \ {c} : rooms[r] # {} /\ rooms[r] \cap targets # {}}

\* geo_add("users", (x, y), uid) returns, set_user_pos returns Ok(old_pos) and
\* the handler calls broadcast_at_multiple(io, [old_pos, pos], "user-move", false)
SetPosAdd(t) ==
    /\ pc[t] = "pos_add"
    /\ users_geo' = [users_geo EXCEPT ![loc[t].uid] = loc[t].pos]
    /\ got' = [r \in Tasks |->
                 IF r \in Reached(t, Targets({loc[t].old, loc[t].pos}))
                 THEN got[r] + 1 ELSE got[r]]
    /\ pc' = [pc EXCEPT ![t] = "idle"]
    /\ loc' = [loc EXCEPT ![t] = NoLoc]
    /\ UNCHANGED << idxVars, storeVars, outVars, avatar, username, socket,
                    plan, rooms, inbox, emitted, histVars, viewVars >>

\* ------------------------------------- view-shift: the query for posts
\* cluster.rs: the zooms a view may ask for
MIN_ZOOM_LEVEL == 3
MAX_ZOOM_LEVEL == 19

\* cluster.rs get_cluster_radius_degrees: 70.3125 degrees / 2^zoom, which is the
\* length get_cluster_radius_meters gives in metres; here in grid steps
FIFTY_PX_IN_DEG_AT_ZOOM_0 == 64
get_cluster_radius_degrees(zoom_level) == FIFTY_PX_IN_DEG_AT_ZOOM_0 \div Pow2(zoom_level)

\* a point of the index or the store lies in the rect (grid steps), edges included
InRect(p, within) ==
    /\ within.left * Scale <= p[1] /\ p[1] <= within.right * Scale
    /\ within.bottom * Scale <= p[2] /\ p[2] <= within.top * Scale

\* cluster.rs Cluster: size 0 is None; mem is history, the posts it stands for
NoCluster == [id |-> 0, pos |-> Absent, size |-> -1, blurb |-> NoBlurb, mem |-> {}]

\* Cluster::size
ClusterSize(c) == IF c.size = 0 THEN 1 ELSE c.size

absorb_cluster_keep(self, other) ==
    LET m == merge_clusters(self.pos[1], self.pos[2], ClusterSize(self),
                            other.pos[1], other.pos[2], ClusterSize(other))
    IN [id |-> self.id, pos |-> << m[1], m[2] >>, size |-> m[3],
        blurb |-> self.blurb, mem |-> self.mem \cup other.mem]

\* Cluster::absorb_cluster
absorb_cluster(self, other) ==
    LET m == merge_clusters(self.pos[1], self.pos[2], ClusterSize(self),
                            other.pos[1], other.pos[2], ClusterSize(other))
    IN [id |-> self.id, pos |-> << m[1], m[2] >>, size |-> m[3],
        blurb |-> NoBlurb, mem |-> self.mem \cup other.mem]

\* impl From<Document> for Cluster, on the projection of a post
ClusterOfDoc(i) ==
    [id |-> i, pos |-> posts[i].pos, size |-> 0,
     blurb |-> get_blurb_from_body(posts[i].body), mem |-> {i}]

\* cluster(): (x / radius).floor(), (y / radius).floor()
Bucket(c, radius) ==
    << c.pos[1] \div (radius * Scale), c.pos[2] \div (radius * Scale) >>

\* cluster(): the first loop sorts the points, in their order, into the grid
RECURSIVE Bucketed(_, _, _)
Bucketed(grid, pts, radius) ==
    IF pts = << >> THEN grid
    ELSE LET new_pt == Head(pts)
             bucket == Bucket(new_pt, radius)
         IN Bucketed(IF bucket \in DOMAIN grid
                     THEN [grid EXCEPT ![bucket] = absorb_cluster(@, new_pt)]
                     ELSE (bucket :> new_pt) @@ grid,
                     Tail(pts), radius)

Adjacent == << << 1, 0 >>, << -1, 0 >>, << 0, 1 >>, << 0, -1 >>,
               << -1, -1 >>, << 1, -1 >>, << -1, 1 >>, << 1, 1 >> >>

\* cluster_grid_dfs; st = [final_item, visited]
RECURSIVE cluster_grid_dfs(_, _, _, _)
RECURSIVE DfsAdjacent(_, _, _, _, _)
cluster_grid_dfs(grid, radius, bucket_pos, st) ==
    IF bucket_pos \in st.visited THEN st
    ELSE DfsAdjacent(grid, radius, bucket_pos, 1,
            [visited |-> st.visited \cup {bucket_pos},
             final_item |-> IF st.final_item = NoCluster THEN grid[bucket_pos]
                            ELSE absorb_cluster(st.final_item, grid[bucket_pos])])

DfsAdjacent(grid, radius, bucket_pos, k, st) ==
    IF k > Len(Adjacent) THEN st
    ELSE LET adj == << bucket_pos[1] + Adjacent[k][1], bucket_pos[2] + Adjacent[k][2] >>
         IN DfsAdjacent(grid, radius, bucket_pos, k + 1,
               IF adj \in DOMAIN grid
                  /\ WithinRadius(grid[adj].pos, st.final_item.pos, radius)
               THEN cluster_grid_dfs(grid, radius, adj, st)
               ELSE st)

\* cluster(): the second loop, over the keys of the grid in the order `buckets`
RECURSIVE ClusterLoop(_, _, _, _, _)
ClusterLoop(grid, radius, buckets, visited, res) ==
    IF buckets = << >> THEN res
    ELSE LET st == cluster_grid_dfs(grid, radius, Head(buckets),
                                    [visited |-> visited, final_item |-> NoCluster])
         IN ClusterLoop(grid, radius, Tail(buckets), st.visited,
                        IF st.final_item = NoCluster THEN res
                        ELSE res \cup {st.final_item})

\* the orders a HashMap may hand out its keys in
KeyOrders(S) ==
    {f \in [1..Cardinality(S) -> S] : \A a, b \in 1..Cardinality(S) : a # b => f[a] # f[b]}

\* the ids of a set of posts as the cursor returns them
RECURSIVE InOrder(_)
InOrder(S) ==
    IF S = {} THEN << >>
    ELSE LET i == CHOOSE k \in S : \A j \in S : k <= j
         IN << ClusterOfDoc(i) >> \o InOrder(S \ {i})

\* cluster(): `if radius <= 0.0 { return pts.to_vec() }`, then the two loops
cluster(pts, radius, buckets) ==
    IF radius <= 0 THEN {pts[k] : k \in 1..Len(pts)}
    ELSE ClusterLoop(Bucketed(<< >>, pts, radius), radius, buckets, {}, {})

\* Cluster::new(x, y), with_blurb(b) when b is a blurb; the point is told from
\* the others by its place i in the input
ClusterNew(i, g, b) == [id |-> i, pos |-> Stored(g), size |-> 0, blurb |-> b, mem |-> {i}]

\* a call cluster(pts, radius) and its result, kept in the caller's locals
ClusterCall(t, pts, radius, buckets) ==
    /\ pc[t] = "idle"
    /\ loc' = [loc EXCEPT ![t] = [NoLoc EXCEPT !.op = "cluster", !.zoom = radius,
                                               !.cursor = {pts},
                                               !.clusters = cluster(pts, radius, buckets)]]
    /\ UNCHANGED << idxVars, storeVars, pc, outVars, onlineVars, roomVars, histVars, viewVars >>

\* socket.rs "view-shift" with one rect: the zoom is checked, rooms are left and
\* joined (see ViewShift), then db.geoquery_post_pts is awaited.  The cache
\* answers Err(()) at once for a zoom it does not hold.
ViewStart(t, zoom, within) ==
    /\ pc[t] = "idle"
    /\ loc' = [loc EXCEPT ![t] = [NoLoc EXCEPT !.op = "view-shift", !.zoom = zoom,
                                               !.within = within]]
    /\ pc' = [pc EXCEPT ![t] =
                 IF zoom < MIN_CACHED_ZOOM_LEVEL \/ MAX_CACHED_ZOOM_LEVEL < zoom
                 THEN "vs_store" ELSE "vs_search"]
    /\ due' = [due EXCEPT ![t] =
                  {i \in LivePosts : << "new-post", i >> \in sent
                                       /\ InRect(posts[i].pos, within)}]
    /\ wasOne' = [wasOne EXCEPT ![t] =
                     IF zoom \in Zooms THEN {i \in Ids : size[zoom][i] = 1} ELSE {}]
    /\ UNCHANGED << idxVars, storeVars, outVars, onlineVars, roomVars, runs, snap, resp >>

\* cache.rs geoquery_post_pts: GEOSEARCH Z<zoom> BYBOX WITHCOORD
ViewSearch(t) ==
    /\ pc[t] = "vs_search"
    /\ loc' = [loc EXCEPT ![t].found =
                  {i \in Ids : geo[loc[t].zoom][i] # Absent
                                 /\ InRect(geo[loc[t].zoom][i], loc[t].within)}]
    /\ pc' = [pc EXCEPT ![t] = "vs_sizes"]
    /\ UNCHANGED << idxVars, storeVars, outVars, onlineVars, roomVars, histVars, viewVars >>

\* ... the search fails: map_err(|_| ())?, and db.rs falls back to the store
ViewSearchFault(t) ==
    /\ pc[t] = "vs_search"
    /\ pc' = [pc EXCEPT ![t] = "vs_store"]
    /\ UNCHANGED << idxVars, storeVars, loc, outVars, onlineVars, roomVars, histVars, viewVars >>

\* ... GET size and GET blurb of every cluster found, in one pipeline; the size
\* is attached unless it is 1, the blurb only when no size is
ViewSizes(t) ==
    /\ pc[t] = "vs_sizes"
    /\ LET z == loc[t].zoom
           sz(i) == IF size[z][i] = 1 THEN 0 ELSE size[z][i]
       IN loc' = [loc EXCEPT ![t].clusters =
                     {[id |-> i, pos |-> geo[z][i], size |-> sz(i),
                       blurb |-> IF sz(i) = 0 THEN blurb[i] ELSE NoBlurb,
                       mem |-> members[z][i]] : i \in loc[t].found}]
    /\ pc' = [pc EXCEPT ![t] = "vs_users"]
    /\ UNCHANGED << idxVars, storeVars, outVars, onlineVars, roomVars, histVars, viewVars >>

\* ... the pipeline fails: query_async(..).await.unwrap() panics, the handler's
\* task ends and its AckSender is dropped unused
ViewSizesFault(t) ==
    /\ pc[t] = "vs_sizes"
    /\ resp' = [resp EXCEPT ![t] = << "panic", {} >>]
    /\ pc' = [pc EXCEPT ![t] = "idle"]
    /\ loc' = [loc EXCEPT ![t] = NoLoc]
    /\ UNCHANGED << idxVars, storeVars, outVars, onlineVars, roomVars, histVars, due >>

\* db.rs geoquery_post_pts, the store path: $geoWithin, then cluster() unless
\* the zoom is the last one
ViewStore(t) ==
    /\ pc[t] = "vs_store"
    /\ LET pts == InOrder({i \in LivePosts : InRect(posts[i].pos, loc[t].within)})
           radius == get_cluster_radius_degrees(loc[t].zoom)
       IN IF loc[t].zoom = MAX_ZOOM_LEVEL
          THEN loc' = [loc EXCEPT ![t].clusters = {pts[k] : k \in 1..Len(pts)}]
          ELSE \E buckets \in KeyOrders(DOMAIN Bucketed(<< >>, pts, radius)) :
                  loc' = [loc EXCEPT ![t].clusters = cluster(pts, radius, buckets)]
    /\ pc' = [pc EXCEPT ![t] = "vs_users"]
    /\ UNCHANGED << idxVars, storeVars, outVars, onlineVars, roomVars, histVars, viewVars >>

\* ... the store query fails: Err, and the handler acknowledges 500
ViewStoreFault(t) ==
    /\ pc[t] = "vs_store"
    /\ resp' = [resp EXCEPT ![t] = << "500", {} >>]
    /\ pc' = [pc EXCEPT ![t] = "idle"]
    /\ loc' = [loc EXCEPT ![t] = NoLoc]
    /\ UNCHANGED << idxVars, storeVars, outVars, onlineVars, roomVars, histVars, due >>

\* db.geoquery_users has answered: the response is acknowledged
ViewUsers(t) ==
    /\ pc[t] = "vs_users"
    /\ resp' = [resp EXCEPT ![t] = << "ok", loc[t].clusters >>]
    /\ pc' = [pc EXCEPT ![t] = "idle"]
    /\ loc' = [loc EXCEPT ![t] = NoLoc]
    /\ UNCHANGED << idxVars, storeVars, outVars, onlineVars, roomVars, histVars, due >>

\* ------------------------------------ socket.rs: "view-shift", the rooms
\* None in view: [Option<Rect>; 2]
NoRect == [left |-> 0, bottom |-> 0, right |-> 0, top |-> 0]

\* the first index from k on at which the view holds a rect, 3 when there is none
NextRect(view, k) ==
    IF k <= 2 /\ view[k] # NoRect THEN k
    ELSE IF k + 1 <= 2 /\ view[k + 1] # NoRect THEN k + 1
    ELSE 3

\* the rooms of every rect of the view
RoomsOfView(tile_layer, view) ==
    UNION {join_rooms(tile_layer, view[j]) : j \in {i \in 1..2 : view[i] # NoRect}}

\* Rect::valid_as_view: top >= bottom, right >= left, one side longer than 0,
\* inside the world
valid_as_view(r) ==
    /\ r.top >= r.bottom /\ r.right >= r.left
    /\ (r.top > r.bottom \/ r.right > r.left)
    /\ -HalfWorld <= r.left /\ r.right <= HalfWorld
    /\ -HalfWorld <= r.bottom /\ r.top <= HalfWorld

\* cache.rs geoquery_users: the members of the geo-set "users" in the box of the
\* rect that have an avatar
UsersIn(within) ==
    {u \in Uids : /\ users_geo[u] # Absent /\ avatar[u] # NoAvatar
                  /\ within.left <= users_geo[u][1] /\ users_geo[u][1] <= within.right
                  /\ within.bottom <= users_geo[u][2] /\ users_geo[u][2] <= within.top}

\* resp.users.extend(user_pts): the list as the number of entries of each id
Extend(list, found) == [u \in Uids |-> IF u \in found THEN list[u] + 1 ELSE list[u]]

\* `if let Some(i) = resp.users.iter().position(|u| u.id == uid)
\*     { resp.users.swap_remove(i); }`: one entry of the id is taken out
RemoveUid(list, uid) ==
    [u \in Uids |-> IF u = uid /\ list[u] > 0 THEN list[u] - 1 ELSE list[u]]

\* a view-shift {uid, zoom, tile_layer, view} of connection c reaches its handler
\* (uid is NoUid when the request carries none):
\* leave_all; a zoom out of range is acknowledged 422, and so is a first rect
\* that is not valid as a view; else the loop joins the rooms of the first rect
\* and awaits the query for posts; a view with no rect is acknowledged at once
ShiftStart(t, c, uid, zoom, tile_layer, view) ==
    /\ pc[t] = "idle"
    /\ LET k == NextRect(view, 1)
       IN IF zoom < MIN_ZOOM_LEVEL \/ MAX_ZOOM_LEVEL < zoom
          THEN /\ rooms' = [rooms EXCEPT ![c] = {}]
               /\ resp' = [resp EXCEPT ![t] = << "422", {} >>]
               /\ UNCHANGED << pc, loc >>
          ELSE IF k = 3
          THEN /\ rooms' = [rooms EXCEPT ![c] = {}]
               /\ resp' = [resp EXCEPT ![t] = << "ok", {}, NoLoc.seen >>]
               /\ UNCHANGED << pc, loc >>
          ELSE IF ~valid_as_view(view[k])
          THEN /\ rooms' = [rooms EXCEPT ![c] = {}]
               /\ resp' = [resp EXCEPT ![t] = << "422", {} >>]
               /\ UNCHANGED << pc, loc >>
          ELSE /\ rooms' = [rooms EXCEPT ![c] = join_rooms(tile_layer, view[k])]
               /\ resp' = [resp EXCEPT ![t] = NoResp]
               /\ loc' = [loc EXCEPT ![t] = [NoLoc EXCEPT !.op = "view-shift", !.conn = c,
                                                          !.uid = uid,
                                                          !.zoom = zoom, !.layer = tile_layer,
                                                          !.view = view, !.k = k]]
               /\ pc' = [pc EXCEPT ![t] = "shift_posts"]
    /\ UNCHANGED << idxVars, storeVars, outVars, onlineVars, plan, inbox, emitted, got,
                    histVars, due >>

\* db.geoquery_post_pts(zoom, rect) returns Ok
ShiftPosts(t) ==
    /\ pc[t] = "shift_posts"
    /\ pc' = [pc EXCEPT ![t] = "shift_users"]
    /\ UNCHANGED << idxVars, storeVars, loc, outVars, onlineVars, roomVars, histVars, viewVars >>

\* db.geoquery_users(rect) returns Ok and its users are appended: the loop
\* goes on to the next rect of the view and joins its rooms (422 if it is not
\* valid as a view), or the uid of the request is taken out of the users and
\* the response is acknowledged (recorded with the rooms of the view)
ShiftUsers(t) ==
    /\ pc[t] = "shift_users"
    /\ LET k == NextRect(loc[t].view, loc[t].k + 1)
           c == loc[t].conn
           list == Extend(loc[t].seen, UsersIn(loc[t].view[loc[t].k]))
       IN IF k = 3
          THEN /\ resp' = [resp EXCEPT ![t] =
                             << "ok", RoomsOfView(loc[t].layer, loc[t].view),
                                RemoveUid(list, loc[t].uid) >>]
               /\ pc' = [pc EXCEPT ![t] = "idle"]
               /\ loc' = [loc EXCEPT ![t] = NoLoc]
               /\ UNCHANGED rooms
          ELSE IF ~valid_as_view(loc[t].view[k])
          THEN /\ resp' = [resp EXCEPT ![t] = << "422", {} >>]
               /\ pc' = [pc EXCEPT ![t] = "idle"]
               /\ loc' = [loc EXCEPT ![t] = NoLoc]
               /\ UNCHANGED rooms
          ELSE /\ rooms' = [rooms EXCEPT ![c] =
                              @ \cup join_rooms(loc[t].layer, loc[t].view[k])]
               /\ loc' = [loc EXCEPT ![t].k = k, ![t].seen = list]
               /\ pc' = [pc EXCEPT ![t] = "shift_posts"]
               /\ UNCHANGED resp
    /\ UNCHANGED << idxVars, storeVars, outVars, onlineVars, plan, inbox, emitted, got,
                    histVars, due >>

\* one of the two queries returns Err: acknowledged 500
ShiftFault(t) ==
    /\ pc[t] \in {"shift_posts", "shift_users"}
    /\ resp' = [resp EXCEPT ![t] = << "500", {} >>]
    /\ pc' = [pc EXCEPT ![t] = "idle"]
    /\ loc' = [loc EXCEPT ![t] = NoLoc]
    /\ UNCHANGED << idxVars, storeVars, outVars, onlineVars, roomVars, histVars, due >>

\* ------------------------------------ socket.rs: a token fails verification
\* the acknowledged events whose data carries a token
AuthEvents == {"sign-up-from-guest", "sign-in-from-jwt", "enter-world", "exit-world",
               "edit-user", "delete-post"}

\* what the handler of the event does in the else branch of
\* `let Ok(JWTPayload {uid}) = authenticate_jwt(&key, &jwt)`: the status it
\* acknowledges, "no-ack" when it returns without using its AckSender
TokenFailAck(ev) ==
    CASE ev = "sign-up-from-guest" -> "401"
      [] ev = "sign-in-from-jwt" -> "401"
      [] ev = "enter-world" -> "401"
      [] ev = "exit-world" -> "500"
      [] ev = "edit-user" -> "no-ack"
      [] ev = "delete-post" -> "401"

\* a request of connection t for event ev with a token that fails
\* authenticate_jwt: the handler ends in the else branch
TokenReject(t, ev) ==
    /\ pc[t] = "idle"
    /\ resp' = [resp EXCEPT ![t] = << TokenFailAck(ev), {ev} >>]
    /\ UNCHANGED << idxVars, storeVars, taskVars, outVars, onlineVars, roomVars, histVars, due >>

\* ---------------------------------------------------- socket.rs: "sign-up"
Names == {"alice", "bob"}

\* socket.rs sign-up: if username.len() > 50
MAX_USERNAME_LEN == 50
\* a username of 51 bytes
LongName == "u01234567890123456789012345678901234567890123456789"

\* the uids gen_id has not handed out
FreshUids == {u \in Uids : ~users[u].present /\ \A t \in Tasks : loc[t].uid # u}

\* count_documents {"username": username}
UsernameCount(name) == Cardinality({u \in Uids : users[u].present /\ users[u].username = name})

\* sign-up {username, password, avatar, pos}: the uid is drawn, the token made,
\* insert_user entered; pos is Absent when the request carries none
SignUpStart(t, uid, name, av, g) ==
    /\ pc[t] = "idle"
    /\ resp[t] = NoResp
    /\ uid \in FreshUids
    /\ IF Len(name) > MAX_USERNAME_LEN
       THEN /\ resp' = [resp EXCEPT ![t] = << "406", {name} >>]
            /\ UNCHANGED << pc, loc >>
       ELSE /\ loc' = [loc EXCEPT ![t] = [NoLoc EXCEPT !.op = "sign-up", !.uid = uid,
                                                       !.name = name, !.avatar = av,
                                                       !.pos = g]]
            /\ pc' = [pc EXCEPT ![t] = "su_count"]
            /\ UNCHANGED resp
    /\ UNCHANGED << idxVars, storeVars, outVars, onlineVars, roomVars, histVars, due >>

\* sign-up-from-guest {guest_jwt, username, password} with a token that
\* authenticates as uid: the await of get_cache_pos_and_avatar
GuestSignUpStart(t, uid, name) ==
    /\ pc[t] = "idle"
    /\ loc' = [loc EXCEPT ![t] = [NoLoc EXCEPT !.op = "sign-up-from-guest", !.uid = uid,
                                               !.name = name]]
    /\ pc' = [pc EXCEPT ![t] = "gsu_get"]
    /\ UNCHANGED << idxVars, storeVars, outVars, onlineVars, roomVars, histVars, viewVars >>

\* get_cache_pos_and_avatar: a Nil avatar is Ok(None) -> 404, a Nil position
\* fails to parse -> 500; else insert_user is entered with the guest's avatar
GuestSignUpGet(t) ==
    /\ pc[t] = "gsu_get"
    /\ LET uid == loc[t].uid
       IN IF avatar[uid] = NoAvatar \/ users_geo[uid] = Absent
          THEN /\ resp' = [resp EXCEPT ![t] =
                             << IF avatar[uid] = NoAvatar THEN "404" ELSE "500",
                                {loc[t].name} >>]
               /\ pc' = [pc EXCEPT ![t] = "idle"]
               /\ loc' = [loc EXCEPT ![t] = NoLoc]
          ELSE /\ loc' = [loc EXCEPT ![t].pos = users_geo[uid], ![t].avatar = avatar[uid]]
               /\ pc' = [pc EXCEPT ![t] = "su_count"]
               /\ UNCHANGED resp
    /\ UNCHANGED << idxVars, storeVars, outVars, onlineVars, roomVars, histVars, due >>

\* insert_user: "check if username is taken" -> UsernameTaken, acknowledged 409
SignUpCount(t) ==
    /\ pc[t] = "su_count"
    /\ IF UsernameCount(loc[t].name) # 0
       THEN /\ resp' = [resp EXCEPT ![t] = << "409", {loc[t].name} >>]
            /\ pc' = [pc EXCEPT ![t] = "idle"]
            /\ loc' = [loc EXCEPT ![t] = NoLoc]
       ELSE /\ pc' = [pc EXCEPT ![t] = "su_upsert"]
            /\ UNCHANGED << loc, resp >>
    /\ UNCHANGED << idxVars, storeVars, outVars, onlineVars, roomVars, histVars, due >>

\* insert_user: update_one {_id: uid} $set username, avatar, hash, upsert.  The
\* users collection has the unique index username_1: a second document with
\* the username is refused by the store (code 11000), which insert_user
\* answers with ServerError, acknowledged 500.  Else the document is written;
\* sign-up-from-guest then broadcasts user-update and acknowledges, sign-up
\* with no pos in the request acknowledges the token.
SignUpUpsert(t) ==
    /\ pc[t] = "su_upsert"
    /\ IF UsernameCount(loc[t].name) # 0
       THEN /\ resp' = [resp EXCEPT ![t] = << "500", {loc[t].name} >>]
            /\ pc' = [pc EXCEPT ![t] = "idle"]
            /\ loc' = [loc EXCEPT ![t] = NoLoc]
            /\ UNCHANGED << users, sent >>
       ELSE /\ users' = [users EXCEPT ![loc[t].uid] =
                            [present |-> TRUE, username |-> loc[t].name,
                             avatar |-> loc[t].avatar]]
            /\ IF loc[t].op = "sign-up-from-guest"
               THEN /\ sent' = sent \cup {<< "user-update", loc[t].uid >>}
                    /\ resp' = [resp EXCEPT ![t] = << "ok", {loc[t].name} >>]
                    /\ pc' = [pc EXCEPT ![t] = "idle"]
                    /\ loc' = [loc EXCEPT ![t] = NoLoc]
               ELSE IF loc[t].pos = Absent
               THEN /\ resp' = [resp EXCEPT ![t] = << "jwt", {loc[t].name} >>]
                    /\ pc' = [pc EXCEPT ![t] = "idle"]
                    /\ loc' = [loc EXCEPT ![t] = NoLoc]
                    /\ UNCHANGED sent
               ELSE /\ pc' = [pc EXCEPT ![t] = "su_enter"]
                    /\ UNCHANGED << loc, resp, sent >>
    /\ UNCHANGED << idxVars, posts, votes, nextId, today, ack, trail, onlineVars, roomVars,
                    histVars, due >>

\* enter_world: add_user_to_cache, broadcast user-enter, then the token is
\* acknowledged
SignUpEnter(t) ==
    /\ pc[t] = "su_enter"
    /\ users_geo' = [users_geo EXCEPT ![loc[t].uid] = loc[t].pos]
    /\ avatar' = [avatar EXCEPT ![loc[t].uid] = loc[t].avatar]
    /\ username' = [username EXCEPT ![loc[t].uid] = loc[t].name]
    /\ socket' = [socket EXCEPT ![t] = loc[t].uid]
    /\ sent' = sent \cup {<< "user-enter", loc[t].uid >>}
    /\ resp' = [resp EXCEPT ![t] = << "jwt", {loc[t].name} >>]
    /\ pc' = [pc EXCEPT ![t] = "idle"]
    /\ loc' = [loc EXCEPT ![t] = NoLoc]
    /\ UNCHANGED << idxVars, storeVars, ack, trail, roomVars, histVars, due >>

\* ------------------------------------- socket.rs: "enter-world", "exit-world"
\* enter-world {jwt, pos} with a token that authenticates as uid
EnterStart(t, uid, g) ==
    /\ pc[t] = "idle"
    /\ loc' = [loc EXCEPT ![t] = [NoLoc EXCEPT !.op = "enter-world", !.uid = uid, !.pos = g]]
    /\ pc' = [pc EXCEPT ![t] = "enter_get"]
    /\ resp' = [resp EXCEPT ![t] = NoResp]
    /\ UNCHANGED << idxVars, storeVars, outVars, onlineVars, roomVars, histVars, due >>

\* db.get::<User>("users", uid): Ok(None) is acknowledged 404
EnterGet(t) ==
    /\ pc[t] = "enter_get"
    /\ IF users[loc[t].uid].present
       THEN /\ loc' = [loc EXCEPT ![t].avatar = users[loc[t].uid].avatar,
                                  ![t].name = users[loc[t].uid].username]
            /\ pc' = [pc EXCEPT ![t] = "enter_add"]
            /\ UNCHANGED resp
       ELSE /\ resp' = [resp EXCEPT ![t] = << "404", {<< "enter-world", loc[t].uid >>} >>]
            /\ pc' = [pc EXCEPT ![t] = "idle"]
            /\ loc' = [loc EXCEPT ![t] = NoLoc]
    /\ UNCHANGED << idxVars, storeVars, outVars, onlineVars, roomVars, histVars, due >>

\* enter_world: add_user_to_cache (the pipeline of add_user), broadcast
\* user-enter, and the acknowledgement (recorded with the position entry the
\* pipeline replaced, Absent when there was none)
EnterAdd(t) ==
    /\ pc[t] = "enter_add"
    /\ users_geo' = [users_geo EXCEPT ![loc[t].uid] = loc[t].pos]
    /\ avatar' = [avatar EXCEPT ![loc[t].uid] = loc[t].avatar]
    /\ username' = [username EXCEPT ![loc[t].uid] = loc[t].name]
    /\ socket' = [socket EXCEPT ![t] = loc[t].uid]
    /\ sent' = sent \cup {<< "user-enter", loc[t].uid >>}
    /\ resp' = [resp EXCEPT ![t] =
                   << "ok", {<< "enter-world", loc[t].uid, users_geo[loc[t].uid] >>} >>]
    /\ pc' = [pc EXCEPT ![t] = "idle"]
    /\ loc' = [loc EXCEPT ![t] = NoLoc]
    /\ UNCHANGED << idxVars, storeVars, ack, trail, roomVars, histVars, due >>

\* exit-world {jwt, stay_online, delete_account} with a token that
\* authenticates as uid; setb holds stay_online and delb is non-empty for
\* delete_account
ExitStart(t, uid, stay, del) ==
    /\ pc[t] = "idle"
    /\ loc' = [loc EXCEPT ![t] = [NoLoc EXCEPT !.op = "exit-world", !.uid = uid,
                                               !.setb = stay,
                                               !.delb = IF del THEN {uid} ELSE {}]]
    /\ pc' = [pc EXCEPT ![t] = "exit_pos"]
    /\ resp' = [resp EXCEPT ![t] = NoResp]
    /\ UNCHANGED << idxVars, storeVars, outVars, onlineVars, roomVars, histVars, due >>

ExitPos_blind(t) ==
    /\ pc[t] = "exit_pos"
    /\ loc' = [loc EXCEPT ![t].pos = users_geo[loc[t].uid],
                          ![t].avatar = avatar[loc[t].uid]]
    /\ pc' = [pc EXCEPT ![t] = IF loc[t].delb # {} THEN "exit_doc" ELSE "exit_cache"]
    /\ UNCHANGED resp
    /\ UNCHANGED << idxVars, storeVars, outVars, onlineVars, roomVars, histVars, due >>

\* get_cache_pos_and_avatar(uid): a Nil avatar is Ok(None), acknowledged 404; a
\* Nil position fails to parse, acknowledged 500
ExitPos(t) ==
    /\ pc[t] = "exit_pos"
    /\ IF avatar[loc[t].uid] = NoAvatar \/ users_geo[loc[t].uid] = Absent
       THEN /\ resp' = [resp EXCEPT ![t] =
                           << IF avatar[loc[t].uid] = NoAvatar THEN "404" ELSE "500",
                              {<< "exit-world", loc[t].uid >>} >>]
            /\ pc' = [pc EXCEPT ![t] = "idle"]
            /\ loc' = [loc EXCEPT ![t] = NoLoc]
       ELSE /\ loc' = [loc EXCEPT ![t].pos = users_geo[loc[t].uid],
                                  ![t].avatar = avatar[loc[t].uid]]
            /\ pc' = [pc EXCEPT ![t] = IF loc[t].delb # {} THEN "exit_doc" ELSE "exit_cache"]
            /\ UNCHANGED resp
    /\ UNCHANGED << idxVars, storeVars, outVars, onlineVars, roomVars, histVars, due >>

\* delete_account: db.delete_user deletes the user document ...
ExitDoc(t) ==
    /\ pc[t] = "exit_doc"
    /\ users' = [users EXCEPT ![loc[t].uid] = NoUser]
    /\ pc' = [pc EXCEPT ![t] = "exit_votes"]
    /\ UNCHANGED << idxVars, posts, votes, nextId, today, loc, outVars, onlineVars, roomVars,
                    histVars, viewVars >>

\* ... then delete_many {"uid": uid} on votes
ExitVotes(t) ==
    /\ pc[t] = "exit_votes"
    /\ votes' = {r \in votes : ~MatchesField(r, "uid", loc[t].uid)}
    /\ pc' = [pc EXCEPT ![t] = "exit_cache"]
    /\ UNCHANGED << idxVars, posts, users, nextId, today, loc, outVars, onlineVars, roomVars,
                    histVars, viewVars >>

\* the pipeline of del_user(uid, socket_id) returns, user-leave is broadcast at
\* the position read; without stay_online the acknowledgement follows
ExitCache(t) ==
    /\ pc[t] = "exit_cache"
    /\ DelUserPipe(loc[t].uid, t)
    /\ sent' = sent \cup {<< "user-leave", loc[t].uid >>}
    /\ IF loc[t].setb
       THEN /\ pc' = [pc EXCEPT ![t] = "exit_guest"]
            /\ UNCHANGED << loc, resp >>
       ELSE /\ resp' = [resp EXCEPT ![t] = << "ok", {<< "exit-world", loc[t].uid >>} >>]
            /\ pc' = [pc EXCEPT ![t] = "idle"]
            /\ loc' = [loc EXCEPT ![t] = NoLoc]
    /\ UNCHANGED << idxVars, storeVars, ack, trail, roomVars, histVars, due >>

\* stay_online: enter_world_as_guest(pos, avatar) with the id gen_id() drew;
\* the acknowledgement carries the guest's token
ExitGuest(t, guest) ==
    /\ pc[t] = "exit_guest"
    /\ avatar[guest] = NoAvatar /\ ~users[guest].present
    /\ \A o \in Tasks : loc[o].uid # guest
    /\ users_geo' = [users_geo EXCEPT ![guest] = loc[t].pos]
    /\ avatar' = [avatar EXCEPT ![guest] = loc[t].avatar]
    /\ socket' = [socket EXCEPT ![t] = guest]
    /\ sent' = sent \cup {<< "user-enter", guest >>}
    /\ resp' = [resp EXCEPT ![t] = << "jwt", {<< "exit-world", loc[t].uid >>} >>]
    /\ pc' = [pc EXCEPT ![t] = "idle"]
    /\ loc' = [loc EXCEPT ![t] = NoLoc]
    /\ UNCHANGED << idxVars, storeVars, ack, trail, username, roomVars, histVars, due >>

\* -------------------------------------------------- socket.rs: "edit-user"
\* edit-user {jwt, avatar, username} with a token that authenticates as uid;
\* NoAvatar and NoName stand for None.  db.edit_user calls
\* edit_user_if_exists, which returns at once when both are None.  before
\* records the side-data the request found (not program state).
EditUserStart(t, uid, av, name) ==
    /\ pc[t] = "idle"
    /\ loc' = [loc EXCEPT ![t] = [NoLoc EXCEPT !.op = "edit-user", !.uid = uid,
                                               !.avatar = av, !.name = name,
                                               !.before = << avatar[uid], username[uid] >>]]
    /\ pc' = [pc EXCEPT ![t] = IF av = NoAvatar /\ name = NoName
                               THEN "edit_store" ELSE "edit_exists"]
    /\ resp' = [resp EXCEPT ![t] = NoResp]
    /\ UNCHANGED << idxVars, storeVars, outVars, onlineVars, roomVars, histVars, due >>

\* the fields of the update on a user document
Updated(doc, av, name) ==
    [doc EXCEPT !.avatar = IF av # NoAvatar THEN av ELSE @,
                !.username = IF name # NoName THEN name ELSE @]

\* db.edit_user: update_one {_id: uid} $set update.  The unique index
\* username_1 refuses a username another document holds: code 11000 ->
\* UsernameTaken, acknowledged 409.  No document of the id: nothing is updated.
EditUserStore(t) ==
    /\ pc[t] = "edit_store"
    /\ LET uid == loc[t].uid
           name == loc[t].name
       IN IF /\ users[uid].present /\ name # NoName
             /\ \E u \in Uids \ {uid} : users[u].present /\ users[u].username = name
          THEN /\ resp' = [resp EXCEPT ![t] = << "409", {uid} >>]
               /\ pc' = [pc EXCEPT ![t] = "idle"]
               /\ loc' = [loc EXCEPT ![t] = NoLoc]
               /\ UNCHANGED users
          ELSE /\ users' = IF users[uid].present
                           THEN [users EXCEPT ![uid] = Updated(@, loc[t].avatar, name)]
                           ELSE users
               /\ pc' = [pc EXCEPT ![t] = "edit_pos"]
               /\ UNCHANGED << loc, resp >>
    /\ UNCHANGED << idxVars, posts, votes, nextId, today, outVars, onlineVars, roomVars,
                    histVars, due >>

\* a cache command of edit_user_if_exists or the update_one fails otherwise:
\* ServerError, acknowledged 500
EditUserFault(t) ==
    /\ pc[t] \in {"edit_exists", "edit_set", "edit_store"}
    /\ loc[t].op = "edit-user"
    /\ resp' = [resp EXCEPT ![t] = << "500", {loc[t].uid} >>]
    /\ pc' = [pc EXCEPT ![t] = "idle"]
    /\ loc' = [loc EXCEPT ![t] = NoLoc]
    /\ UNCHANGED << idxVars, storeVars, outVars, onlineVars, roomVars, histVars, due >>

\* get_cache_pos_and_avatar: Ok(Some) -> broadcast user-update at the position;
\* then the acknowledgement
EditUserPos(t) ==
    /\ pc[t] = "edit_pos"
    /\ sent' = IF avatar[loc[t].uid] # NoAvatar /\ users_geo[loc[t].uid] # Absent
               THEN sent \cup {<< "user-update", loc[t].uid >>} ELSE sent
    /\ resp' = [resp EXCEPT ![t] = << "ok", {loc[t].uid} >>]
    /\ pc' = [pc EXCEPT ![t] = "idle"]
    /\ loc' = [loc EXCEPT ![t] = NoLoc]
    /\ UNCHANGED << idxVars, storeVars, ack, trail, onlineVars, roomVars, histVars, due >>

AddSteps(t) ==
    \/ AddLock(t) \/ AddGeoquery(t) \/ AddNearby(t)
    \/ AddSave(t) \/ AddBlurbs(t) \/ AddUnlock(t)

DelSteps(t) == DelLock(t) \/ DelSizes(t) \/ DelDel(t) \/ DelUnlock(t)

NoPlan == [layer |-> 0, rect |-> [left |-> 0, bottom |-> 0, right |-> 0, top |-> 0],
           pos |-> << 0, 0 >>, from |-> << 0, 0 >>]

NoSnap == << EmptyNear, EmptySizes, [i \in Ids |-> NoBlurb] >>
InitHist ==
    /\ runs = 0
    /\ snap = NoSnap
    /\ resp = [t \in Tasks |-> NoResp]
    /\ due = [t \in Tasks |-> {}]
    /\ wasOne = [t \in Tasks |-> {}]

\* nobody online, no room joined
InitSessions ==
    /\ users_geo = [u \in Uids |-> Absent]
    /\ avatar = [u \in Uids |-> NoAvatar]
    /\ username = [u \in Uids |-> NoName]
    /\ socket = [t \in Tasks |-> NoUid]
    /\ rooms = [t \in Tasks |-> {}]
    /\ inbox = [t \in Tasks |-> {}]
    /\ emitted = {}
    /\ got = [t \in Tasks |-> 0]

Init ==
    /\ InitSessions
    /\ InitHist
    /\ plan = NoPlan
    /\ geo = EmptyNear
    /\ size = EmptySizes
    /\ blurb = [i \in Ids |-> NoBlurb]
    /\ lock = [n \in LockNames |-> NoTask]
    /\ members = EmptyMembers
    /\ posts = [i \in Ids |-> NoDoc]
    /\ votes = {}
    /\ users = [u \in Uids |-> NoUser]
    /\ nextId = 1
    /\ today = 0
    /\ pc = [t \in AllTasks |-> "idle"]
    /\ loc = [t \in AllTasks |-> NoLoc]
    /\ sent = {}
    /\ ack = NoAck
    /\ trail = [i \in Ids |-> {}]

AllIdle == \A t \in AllTasks : pc[t] = "idle"

\* the cache API under concurrent callers, failing commands and expiring leases
NextIndex ==
    \/ \E t \in Tasks : \E g \in PosSet : \E b \in Bodies :
          nextId <= MaxRacePosts /\ ApiAdd(t, g, b)
    \/ \E t \in Tasks : \E i \in RaceIds : ApiDel(t, i)
    \/ \E t \in Tasks : AddSteps(t)
    \/ \E t \in Tasks : DelSteps(t)
    \/ \E t \in Tasks : CacheFault(t)
    \/ \E n \in LockNames : LeaseExpire(n)

SpecIndex == Init /\ [][NextIndex]_vars

\* concurrent callers of add_post_pt, failing commands and expiring leases.
\* The tasks are scheduled fairly: a call that can take its next step takes
\* it, the retry loop around lock_manager.lock included, and a lease that
\* stays in force runs out.
NextLive ==
    \/ \E t \in Tasks : \E g \in RacePos : \E b \in Bodies :
          nextId <= MaxRacePosts /\ ApiAdd(t, g, b)
    \/ \E t \in Tasks : AddSteps(t)
    \/ \E t \in Tasks : CacheFault(t)
    \/ LeaseExpire(ADD_LOCK)

FairLive ==
    /\ \A t \in Tasks : WF_vars(AddSteps(t))
    /\ WF_vars(LeaseExpire(ADD_LOCK))

SpecLive == Init /\ [][NextLive]_vars /\ FairLive

\* the cache API called by one caller at a time, every command succeeding
NextIndexSeq ==
    \/ \E t \in Tasks : \E g \in PosSet : \E b \in Bodies : AllIdle /\ ApiAdd(t, g, b)
    \/ \E t \in Tasks : \E i \in Ids : AllIdle /\ ApiDel(t, i)
    \/ \E t \in Tasks : AddSteps(t)
    \/ \E t \in Tasks : DelSteps(t)

SpecIndexSeq == Init /\ [][NextIndexSeq]_vars

\* the handlers of the post lifecycle with the nightly job, concurrently
Authors == {"u1", NoUid}
Tokens == {"u1", BadToken}

NextPosts ==
    \/ \E t \in Tasks : \E a \in Authors : \E g \in RacePos : \E b \in Bodies :
          nextId <= MaxRacePosts /\ PostStart(t, a, g, b)
    \/ \E t \in Tasks : PostInsert(t)
    \/ \E t \in Tasks : PostInsertFault(t)
    \/ \E t \in Tasks : \E tok \in Tokens : \E i \in RaceIds :
          DelpStart(t, tok, i)
    \/ \E t \in Tasks : DelpGet(t)
    \/ \E t \in Tasks : DelpDelete(t)
    \/ \E t \in Tasks : DelpVotes(t)
    \/ \E t \in Tasks : DelpFault(t)
    \/ \E t \in Tasks : AddSteps(t)
    \/ \E t \in Tasks : CacheFault(t)
    \/ \E n \in LockNames : LeaseExpire(n)

SpecPosts == Init /\ [][NextPosts]_vars

\* the nightly job next to one connection that posts, days passing, every
\* cache command succeeding
NextNightly ==
    \/ \E a \in Authors : \E g \in RacePos : \E b \in Bodies :
          nextId <= MaxRacePosts /\ PostStart("t1", a, g, b)
    \/ PostInsert("t1")
    \/ NightStart \/ NightDelete \/ NightFlush \/ NightFind \/ NightNext \/ NightFault
    \/ \E t \in AllTasks : AddSteps(t)
    \/ Tick

SpecNightly == Init /\ [][NextNightly]_vars

\* reconciliation: the post and delete-post handlers run one at a time, with
\* failing cache commands and days passing, until the nightly job has
\* completed once; from then on nothing but the nightly job runs
Quiet == AllIdle /\ runs = 0

NextReconcile ==
    \/ \E g \in PosSet : \E b \in Bodies : Quiet /\ PostStart("t1", "u1", g, b)
    \/ PostInsert("t1")
    \/ \E t \in AllTasks : AddSteps(t)
    \/ runs = 0 /\ CacheFault("t1")
    \/ \E n \in LockNames : runs = 0 /\ lock[n] = Orphan /\ LeaseExpire(n)
    \/ \E i \in LivePosts : Quiet /\ DelpStart("t1", "u1", i)
    \/ DelpGet("t1") \/ DelpDelete("t1") \/ DelpVotes("t1")
    \/ Quiet /\ Tick
    \/ AllIdle /\ NightStart
    \/ NightDelete \/ NightFlush \/ NightFind \/ NightNext

SpecReconcile == Init /\ [][NextReconcile]_vars

\* posts and views: one connection posts, the other shifts its view; the
\* points are close enough to merge on the zooms the store clusters too
ViewPos == {<< 0, 0 >>, << 1, 0 >>, << 3, 0 >>}
ViewRects == {[left |-> -1, bottom |-> -1, right |-> 2, top |-> 1],
              [left |-> 2, bottom |-> -1, right |-> 4, top |-> 1],
              [left |-> -1, bottom |-> -1, right |-> 4, top |-> 1]}
ViewZooms == Zooms \cup {MAX_CACHED_ZOOM_LEVEL + 1, MAX_ZOOM_LEVEL}

NextView ==
    \/ \E g \in ViewPos : \E b \in Bodies : PostStart("t1", "u1", g, b)
    \/ PostInsert("t1")
    \/ AddSteps("t1")
    \/ \E z \in ViewZooms : \E r \in ViewRects : ViewStart("t2", z, r)
    \/ ViewSearch("t2") \/ ViewSearchFault("t2") \/ ViewSizes("t2") \/ ViewSizesFault("t2")
    \/ ViewStore("t2") \/ ViewStoreFault("t2") \/ ViewUsers("t2")

SpecView == Init /\ [][NextView]_vars

\* sign-up from two connections at once, every store command succeeding
NextSignUp ==
    \/ \E t \in Tasks : \E u \in Uids : \E n \in Names : \E a \in Avatars :
          \E g \in {Absent, Stored(<< 0, 0 >>)} : SignUpStart(t, u, n, a, g)
    \/ \E t \in Tasks : SignUpCount(t)
    \/ \E t \in Tasks : SignUpUpsert(t)
    \/ \E t \in Tasks : SignUpEnter(t)

SpecSignUp == Init /\ [][NextSignUp]_vars

\* posts by u1 and by nobody, delete-post from both connections with the
\* tokens of u1 and u2, every store and cache command succeeding
DelTokens == {"u1", "u2"}

NextDelete ==
    \/ \E a \in Authors : \E g \in RacePos : \E b \in Bodies :
          nextId <= MaxRacePosts /\ PostStart("t1", a, g, b)
    \/ PostInsert("t1")
    \/ AddSteps("t1")
    \/ \E t \in Tasks : \E tok \in DelTokens : \E i \in RaceIds : DelpStart(t, tok, i)
    \/ \E t \in Tasks : DelpGet(t)
    \/ \E t \in Tasks : DelpDelete(t)
    \/ \E t \in Tasks : DelpVotes(t)

SpecDelete == Init /\ [][NextDelete]_vars

\* requests with a token that fails verification, while users enter the world
NextAuth ==
    \/ \E t \in Tasks : \E ev \in AuthEvents : TokenReject(t, ev)
    \/ \E t \in Tasks : \E u \in Uids : \E g \in RacePos : \E a \in Avatars :
          add_user(t, u, Stored(g), a, NoName)

SpecAuth == Init /\ [][NextAuth]_vars

\* accounts: guests enter the world, sign up, and usernames are edited, every
\* store and cache command succeeding
AccountNames == {"alice", LongName}

NextNames ==
    \/ \E t \in Tasks : \E u \in Uids : \E n \in AccountNames :
          SignUpStart(t, u, n, 1, Absent)
    \/ \E t \in Tasks : SignUpCount(t)
    \/ \E t \in Tasks : SignUpUpsert(t)
    \/ \E u \in FreshUids : avatar[u] = NoAvatar /\ add_user("t1", u, Stored(<< 0, 0 >>), 1, NoName)
    \/ \E u \in Uids : \E n \in AccountNames : GuestSignUpStart("t1", u, n)
    \/ GuestSignUpGet("t1")
    \/ \E u \in Uids : \E n \in AccountNames : EditUserStart("t2", u, NoAvatar, n)
    \/ EditExists("t2") \/ EditSet("t2") \/ EditUserStore("t2") \/ EditUserPos("t2")

SpecNames == Init /\ [][NextNames]_vars

\* guests enter the world under fresh uids and are promoted to accounts, every
\* store and cache command succeeding
NextPromote ==
    \/ \E t \in Tasks : \E u \in Uids :
          /\ avatar[u] = NoAvatar /\ ~users[u].present
          /\ add_user(t, u, Stored(<< 0, 0 >>), 1, NoName)
    \/ \E t \in Tasks : \E u \in Uids : \E n \in Names : GuestSignUpStart(t, u, n)
    \/ \E t \in Tasks : GuestSignUpGet(t)
    \/ \E t \in Tasks : SignUpCount(t)
    \/ \E t \in Tasks : SignUpUpsert(t)

SpecPromote == Init /\ [][NextPromote]_vars

\* accounts that signed up with a position edit their avatar and username,
\* one request per account at a time; the store and cache commands of
\* edit_user may fail
EditAvatars == {NoAvatar, 2}
EditNames == {NoName} \cup Names

NextEdit ==
    \/ \E t \in Tasks : \E u \in Uids : \E n \in Names :
          SignUpStart(t, u, n, 1, Stored(<< 0, 0 >>))
    \/ \E t \in Tasks : SignUpCount(t)
    \/ \E t \in Tasks : SignUpUpsert(t)
    \/ \E t \in Tasks : SignUpEnter(t)
    \/ \E t \in Tasks : \E u \in Uids : \E a \in EditAvatars : \E n \in EditNames :
          /\ users[u].present
          /\ \A o \in Tasks : loc[o].uid # u
          /\ EditUserStart(t, u, a, n)
    \/ \E t \in Tasks : EditExists(t)
    \/ \E t \in Tasks : EditSet(t)
    \/ \E t \in Tasks : EditUserStore(t)
    \/ \E t \in Tasks : EditUserFault(t)
    \/ \E t \in Tasks : EditUserPos(t)

SpecEdit == Init /\ [][NextEdit]_vars

\* connections enter the world, move and disconnect, every command succeeding
NextDisconnect ==
    \/ \E t \in Tasks : \E u \in Uids : \E g \in RacePos :
          add_user(t, u, Stored(g), 1, NoName)
    \/ \E t \in Tasks : \E u \in Uids : \E g \in RacePos : SetPosStart(t, u, Stored(g))
    \/ \E t \in Tasks : SetPosGet(t)
    \/ \E t \in Tasks : SetPosAdd(t)
    \/ \E t \in Tasks : DiscStart(t)
    \/ \E t \in Tasks : DiscPos(t)
    \/ \E t \in Tasks : DiscDel(t)

SpecDisconnect == Init /\ [][NextDisconnect]_vars

\* accounts sign up without a position, enter the world and leave it again,
\* every store and cache command succeeding
WorldUids == {"u1"}
GuestUids == Uids \ WorldUids

NextWorld ==
    \/ \E u \in WorldUids : SignUpStart("t1", u, "alice", 1, Absent)
    \/ SignUpCount("t1")
    \/ SignUpUpsert("t1")
    \/ \E t \in Tasks : \E u \in WorldUids : \E g \in RacePos : EnterStart(t, u, Stored(g))
    \/ \E t \in Tasks : EnterGet(t)
    \/ \E t \in Tasks : EnterAdd(t)
    \/ \E t \in Tasks : \E u \in WorldUids : \E stay, del \in BOOLEAN : ExitStart(t, u, stay, del)
    \/ \E t \in Tasks : ExitPos(t)
    \/ \E t \in Tasks : ExitDoc(t)
    \/ \E t \in Tasks : ExitVotes(t)
    \/ \E t \in Tasks : ExitCache(t)
    \/ \E t \in Tasks : \E u \in GuestUids : ExitGuest(t, u)

SpecWorld == Init /\ [][NextWorld]_vars

\* one call of cluster() on up to MaxPts points of a small grid, with and
\* without a blurb, for every order the HashMap may hand out its keys in
MaxPts == 3
PtPos == {<< 0, 0 >>, << 1, 1 >>, << 3, 0 >>, << 9, 9 >>}
PtBlurbs == {NoBlurb, << 7 >>}
Radii == {0, 1, 2}
PtSeqs ==
    UNION {{[i \in 1..n |-> ClusterNew(i, g[i], b[i])] :
               g \in [1..n -> PtPos], b \in [1..n -> PtBlurbs]} : n \in 1..MaxPts}

NextCluster ==
    /\ loc["t1"].op = "none"
    /\ \E pts \in PtSeqs : \E radius \in Radii :
          \E buckets \in IF radius <= 0 THEN {<< >>}
                         ELSE KeyOrders(DOMAIN Bucketed(<< >>, pts, radius)) :
             ClusterCall("t1", pts, radius, buckets)

SpecCluster == Init /\ [][NextCluster]_vars

\* one call of cluster() on a chain: MinChain..MaxChain points on a line, each
\* at the radius from the one before, along an axis or along (3, 4); the
\* buckets are visited in every order
MinChain == 4
MaxChain == 5
ChainDirs == {<< << 1, 0 >>, 1 >>, << << -1, 0 >>, 1 >>, << << 0, 2 >>, 2 >>,
              << << 0, -2 >>, 2 >>, << << 3, 4 >>, 5 >>, << << -4, 3 >>, 5 >>}
ChainStarts == {<< 0, 0 >>, << -3, 1 >>, << 1, 1 >>}
Chain(start, dir, n) ==
    [i \in 1..n |-> ClusterNew(i, << start[1] + (i - 1) * dir[1],
                                     start[2] + (i - 1) * dir[2] >>, NoBlurb)]

NextChain ==
    /\ loc["t1"].op = "none"
    /\ \E start \in ChainStarts : \E d \in ChainDirs : \E n \in MinChain..MaxChain :
          \E buckets \in KeyOrders(DOMAIN Bucketed(<< >>, Chain(start, d[1], n), d[2])) :
             ClusterCall("t1", Chain(start, d[1], n), d[2], buckets)

SpecChain == Init /\ [][NextChain]_vars

\* one call of cluster() with a radius above 0 on 0..MaxPts inputs, each a
\* single point or a cluster that already counts two
PtSizes == {0, 2}
SizedSeqs ==
    UNION {{[i \in 1..n |-> [ClusterNew(i, g[i], NoBlurb) EXCEPT !.size = z[i]]] :
               g \in [1..n -> PtPos], z \in [1..n -> PtSizes]} : n \in 0..MaxPts}

NextConserve ==
    /\ loc["t1"].op = "none"
    /\ \E pts \in SizedSeqs : \E radius \in Radii \ {0} :
          \E buckets \in KeyOrders(DOMAIN Bucketed(<< >>, pts, radius)) :
             ClusterCall("t1", pts, radius, buckets)

SpecConserve == Init /\ [][NextConserve]_vars

\* the store API for votes, views and account deletion over one stored post,
\* every store command succeeding
VotePost == CHOOSE i \in Ids : \A j \in Ids : i <= j
VoteIds == {VotePost}
InitVotes ==
    /\ InitSessions
    /\ InitHist
    /\ plan = NoPlan
    /\ geo = [z \in Zooms |-> [i \in Ids |->
                 IF i = VotePost THEN Stored(<<0, 0>>) ELSE Absent]]
    /\ size = [z \in Zooms |-> [i \in Ids |-> IF i = VotePost THEN 1 ELSE 0]]
    /\ blurb = [i \in Ids |-> IF i = VotePost THEN get_blurb_from_body(LongBody)
                                ELSE NoBlurb]
    /\ lock = [n \in LockNames |-> NoTask]
    /\ members = [z \in Zooms |-> [i \in Ids |-> IF i = VotePost THEN {i} ELSE {}]]
    /\ posts = [i \in Ids |->
                 IF i = VotePost
                 THEN [present |-> TRUE, pos |-> Stored(<<0, 0>>), author |-> "u1",
                       body |-> LongBody, likes |-> 0, dislikes |-> 0, views |-> 0,
                       expiry |-> POST_LIFETIME, created |-> 0]
                 ELSE NoDoc]
    /\ votes = {}
    /\ users = [u \in Uids |-> [present |-> TRUE, username |-> u, avatar |-> 1]]
    /\ nextId = VotePost + 1
    /\ today = 0
    /\ pc = [t \in AllTasks |-> "idle"]
    /\ loc = [t \in AllTasks |-> NoLoc]
    /\ sent = {<< "new-post", VotePost >>}
    /\ ack = NoAck
    /\ trail = [i \in Ids |-> IF i = VotePost THEN {"stored", "indexed"} ELSE {}]

NextVotes ==
    \/ \E t \in Tasks : \E u \in Uids : \E i \in VoteIds : \E k \in VoteKinds :
          VoteStart(t, u, i, k)
    \/ \E t \in Tasks : VoteGet(t)
    \/ \E t \in Tasks : VoteInc(t)
    \/ \E t \in Tasks : VoteRow(t)
    \/ \E i \in VoteIds : increment_view(i)
    \/ \E t \in Tasks : \E u \in Uids : DuStart(t, u)
    \/ \E t \in Tasks : DuDoc(t)
    \/ \E t \in Tasks : DuVotes(t)
    \/ \E t \in Tasks : DelpStart(t, "u1", VotePost)
    \/ \E t \in Tasks : DelpGet(t)
    \/ \E t \in Tasks : DelpDelete(t)
    \/ \E t \in Tasks : DelpVotes(t)

SpecVotes == InitVotes /\ [][NextVotes]_vars

\* votes only: both connections send set_vote requests of either user on the
\* stored post, every store command succeeding
MaxRaceCount == 2

NextVoteRace ==
    \/ \E t \in Tasks : \E u \in Uids : \E k \in VoteKinds : VoteStart(t, u, VotePost, k)
    \/ \E t \in Tasks : VoteGet(t)
    \/ \E t \in Tasks : VoteIncUpTo(t, MaxRaceCount)
    \/ \E t \in Tasks : VoteRow(t)

SpecVoteRace == InitVotes /\ [][NextVoteRace]_vars

\* the online-user index under concurrent connections, every command succeeding
NextOnline ==
    \/ \E t \in Tasks : \E u \in Uids : \E g \in RacePos : \E a \in Avatars :
          \E n \in {NoName, u} : add_user(t, u, Stored(g), a, n)
    \/ \E t \in Tasks : \E u \in Uids : \E g \in RacePos : SetPosStart(t, u, Stored(g))
    \/ \E t \in Tasks : SetPosGet(t)
    \/ \E t \in Tasks : SetPosAdd(t)
    \/ \E t \in Tasks : \E u \in Uids : \E a \in Avatars : EditStart(t, u, a)
    \/ \E t \in Tasks : EditExists(t)
    \/ \E t \in Tasks : EditSet(t)
    \/ \E t \in Tasks : \E u \in Uids : del_user(t, u)
    \/ \E t \in Tasks : SockGet(t)
    \/ \E t \in Tasks : SockDel(t)

SpecOnline == Init /\ [][NextOnline]_vars

\* fan-out: a layer, an aligned rect on it and a point are drawn; connections
\* shift their view to the rect or away, then broadcast at the point
CellsX(n) == {0, n \div 2, n - 1}
CellsY(n) == {0, n - 1}
Shapes == {<< 1, 1 >>, << 2, 1 >>, << 1, 2 >>}
InWorldClosed(k) == -HalfWorld <= k /\ k <= HalfWorld

RectsAt(tile_layer) ==
    LET n == Pow2(tile_layer)
        ts == tile_size(tile_layer)
    IN {[left |-> -HalfWorld + cx * ts, bottom |-> -HalfWorld + cy * ts,
         right |-> -HalfWorld + (cx + sh[1]) * ts,
         top |-> -HalfWorld + (cy + sh[2]) * ts] :
           cx \in CellsX(n), cy \in CellsY(n),
           sh \in {q \in Shapes : q[1] <= n /\ q[2] <= n}}

FitsWorld(r) == r.right <= HalfWorld /\ r.top <= HalfWorld

PointsFor(r) ==
    {<< x, y >> : x \in {k \in {r.left - 1, r.left, r.right - 1, r.right, HalfWorld} :
                            InWorldClosed(k)},
                 y \in {k \in {r.bottom, r.top - 1, r.top} : InWorldClosed(k)}}

Plans ==
    UNION {UNION {{[layer |-> l, rect |-> r, pos |-> p, from |-> p] : p \in PointsFor(r)} :
                     r \in {q \in RectsAt(l) : FitsWorld(q)}} : l \in Layers}

InitRooms ==
    /\ InitSessions
    /\ InitHist
    /\ plan \in Plans
    /\ geo = EmptyNear
    /\ size = EmptySizes
    /\ blurb = [i \in Ids |-> NoBlurb]
    /\ lock = [n \in LockNames |-> NoTask]
    /\ members = EmptyMembers
    /\ posts = [i \in Ids |-> NoDoc]
    /\ votes = {}
    /\ users = [u \in Uids |-> NoUser]
    /\ nextId = 1
    /\ today = 0
    /\ pc = [t \in AllTasks |-> "idle"]
    /\ loc = [t \in AllTasks |-> NoLoc]
    /\ sent = {}
    /\ ack = NoAck
    /\ trail = [i \in Ids |-> {}]

NextRooms ==
    \/ \E c \in Tasks : ViewShift(c)
    \/ \E c \in Tasks : ViewLeave(c)
    \/ \E c \in Tasks : BroadcastAt(c)

SpecRooms == InitRooms /\ [][NextRooms]_vars

\* ------------------------------------------------------------ properties
RECURSIVE SumOver(_, _)
SumOver(f, S) == IF S = {} THEN 0
                 ELSE LET i == CHOOSE k \in S : TRUE
                      IN f[i] + SumOver(f, S \ {i})

NoFailure == \A i \in Ids : "failed" \notin trail[i]
Clusters(z) == {i \in Ids : geo[z][i] # Absent}

\* C1: conservation of mass -- whenever no request is in flight (and no cache
\* command has failed), on every cached zoom the sizes of the clusters of the
\* geo-set add up to the number of posts in the store.
C1_ConservationOfMass ==
    (AllIdle /\ NoFailure) =>
        \A z \in Zooms :
            SumOver(size[z], Clusters(z)) = Cardinality(LivePosts)

\* C2: whenever no request is in flight (and no cache command has failed),
\* every stored cluster represents live posts only, its size is their number
\* and its centroid is the mean of their positions.
C2_CentroidIsMeanOfLivePosts ==
    (AllIdle /\ NoFailure) =>
        \A z \in Zooms : \A c \in Clusters(z) :
            LET m == members[z][c]
            IN /\ m \subseteq LivePosts
               /\ size[z][c] = Cardinality(m)
               /\ geo[z][c][1] * Cardinality(m) =
                      SumOver([i \in Ids |-> posts[i].pos[1]], m)
               /\ geo[z][c][2] * Cardinality(m) =
                      SumOver([i \in Ids |-> posts[i].pos[2]], m)

\* C3: whenever no cluster-index operation is in flight, blurb[id] exists if
\* and only if size[z][id] = 1 on some cached zoom z.
C3_BlurbIffSingleton ==
    AllIdle =>
        \A i \in Ids : (blurb[i] # NoBlurb) <=> (\E z \in Zooms : size[z][i] = 1)

\* C3 witness: inserts and a delete have run; a partially merged cluster keeps
\* its blurb, and a deleted post whose cluster had grown has none.
C3_Witness ==
    /\ AllIdle
    /\ \E i \in Ids : blurb[i] # NoBlurb /\ \E z \in Zooms : size[z][i] >= 2
    /\ \E j \in Ids : "dropped" \in trail[j] /\ \E z \in Zooms : size[z][j] >= 2

\* C8: once delete-post has acknowledged success for a post (the step that
\* acknowledges it also broadcasts post-delete), the cluster index holds no
\* size-1 cluster and no blurb under the post's id.
C8_DeletedPostLeftIndex ==
    \A i \in Ids :
        << "post-delete", i >> \in sent =>
            /\ \A z \in Zooms : size[z][i] # 1
            /\ blurb[i] = NoBlurb

\* C9: a post's cluster is written only after its store document; new-post is
\* broadcast only after the store write and the last index write are done; an
\* insert whose index write failed has broadcast nothing and its document was
\* written and is still stored unless a delete has removed it since.
C9_StoreThenIndexThenBroadcast ==
    \A i \in Ids :
        /\ ((\E z \in Zooms : geo[z][i] # Absent) \/ blurb[i] # NoBlurb
               \/ "indexed" \in trail[i] \/ "failed" \in trail[i])
              => "stored" \in trail[i]
        /\ << "new-post", i >> \in sent => {"stored", "indexed"} \subseteq trail[i]
        /\ "failed" \in trail[i] =>
              /\ << "new-post", i >> \notin sent
              /\ posts[i].present \/ "removed" \in trail[i]

\* C9 witness: one insert failed in the index and left its document in the
\* store; another one went through and was broadcast.
C9_Witness ==
    /\ \E i \in Ids : "failed" \in trail[i] /\ posts[i].present
    /\ \E j \in Ids : << "new-post", j >> \in sent /\ posts[j].present

InCritical(t) ==
    pc[t] \in {"add_geoquery", "add_nearby", "add_save", "add_blurbs", "add_unlock",
               "del_sizes", "del_del", "del_unlock"}
HoldsLease(t) == \E n \in LockNames : lock[n] = t

\* C10: no two tasks are between lock acquisition and lock release of a
\* cluster-index write at once, each with its lease still running.
C10_WriterMutex ==
    \A t1, t2 \in Tasks :
        (t1 # t2 /\ InCritical(t1) /\ HoldsLease(t1)) =>
            ~(InCritical(t2) /\ HoldsLease(t2))

LikeRows(p) == {r \in votes : MatchesField(r, "post_id", p) /\ r.kind = "like"}
DislikeRows(p) == {r \in votes : MatchesField(r, "post_id", p) /\ r.kind = "dislike"}

\* C4: whenever no request is in flight, every stored post has as many like
\* rows as its likes counter says and as
\* many dislike rows as its dislikes counter says.
C4_VoteRowsMatchCounters ==
    AllIdle =>
        \A p \in LivePosts :
            /\ Cardinality(LikeRows(p)) = posts[p].likes
            /\ Cardinality(DislikeRows(p)) = posts[p].dislikes

\* C5: every stored post expires on created + 7 + views + 2*likes - dislikes.
C5_ExpiryFormula ==
    \A p \in LivePosts :
        posts[p].expiry = posts[p].created + POST_LIFETIME + posts[p].views
                            + 2 * posts[p].likes - posts[p].dislikes

\* C5 witness: the post has been viewed, liked and disliked, and a vote on it
\* has been changed.
C5_Witness ==
    /\ posts[VotePost].present
    /\ posts[VotePost].views = MaxViews
    /\ posts[VotePost].likes >= 1
    /\ posts[VotePost].dislikes >= 1
    /\ \E t \in Tasks : pc[t] = "vote_row" /\ loc[t].prev = "like"
                                            /\ loc[t].vote = "dislike"

\* C6: whenever no online-index operation is in flight, a uid has an avatar
\* entry if and only if it is a member of the geo-set "users".
C6_AvatarIffInGeoSet ==
    AllIdle =>
        \A u \in Uids : (avatar[u] # NoAvatar) <=> (users_geo[u] # Absent)

\* pos lies in one of the rect's tiles, a tile holding its south and west
\* edges but not its north and east edges
\* a user who entered the world at one point moves to another while both
\* connections shift their views onto a rect
MoveLayers == {0, 1, 4, MAX_TILE_LAYER}

MovePoints(r) ==
    {<< x, r.bottom >> : x \in {k \in {r.left - 1, r.left, r.right - 1, r.right} :
                                   InWorldClosed(k)}}
       \cup {<< r.left, y >> : y \in {k \in {r.bottom - 1, r.top} : InWorldClosed(k)}}

MovePlans ==
    UNION {UNION {{[layer |-> l, rect |-> r, pos |-> p, from |-> q] :
                      p \in MovePoints(r), q \in MovePoints(r)} :
                     r \in {q \in RectsAt(l) : FitsWorld(q)}} : l \in MoveLayers}

InitMove ==
    /\ InitSessions
    /\ InitHist
    /\ plan \in MovePlans
    /\ geo = EmptyNear
    /\ size = EmptySizes
    /\ blurb = [i \in Ids |-> NoBlurb]
    /\ lock = [n \in LockNames |-> NoTask]
    /\ members = EmptyMembers
    /\ posts = [i \in Ids |-> NoDoc]
    /\ votes = {}
    /\ users = [u \in Uids |-> NoUser]
    /\ nextId = 1
    /\ today = 0
    /\ pc = [t \in AllTasks |-> "idle"]
    /\ loc = [t \in AllTasks |-> NoLoc]
    /\ sent = {}
    /\ ack = NoAck
    /\ trail = [i \in Ids |-> {}]

\* the events a connection is counted to have got
MaxEvents == 1

NextMove ==
    \/ \E c \in Tasks : ViewShift(c)
    \/ \E c \in Tasks : ViewLeave(c)
    \/ users_geo["u1"] = Absent /\ add_user("t1", "u1", plan.from, 1, NoName)
    \/ (\A r \in Tasks : got[r] < MaxEvents) /\ SetPosStart("t1", "u1", plan.pos)
    \/ SetPosGet("t1")
    \/ SetPosAdd("t1")

SpecMove == InitMove /\ [][NextMove]_vars

\* the view-shift requests of one connection, each served by a task of its own
ShiftConn == "t1"
ShiftLayer == 1
ShiftRects ==
    {[left |-> -HalfWorld, bottom |-> -HalfWorld, right |-> 0, top |-> 0],
     [left |-> 0, bottom |-> -HalfWorld, right |-> HalfWorld, top |-> 0],
     [left |-> -HalfWorld, bottom |-> 0, right |-> HalfWorld, top |-> HalfWorld]}
\* a rect whose right edge is left of its left edge
BadRect == [left |-> 0, bottom |-> -HalfWorld, right |-> -HalfWorld, top |-> 0]
ShiftViews ==
    {<< r1, r2 >> : r1 \in ShiftRects \cup {NoRect, BadRect},
                    r2 \in ShiftRects \cup {NoRect, BadRect}}
ShiftZooms == {MIN_ZOOM_LEVEL - 1, MIN_ZOOM_LEVEL}

NextShift ==
    \/ \E t \in Tasks : \E z \in ShiftZooms : \E v \in ShiftViews :
          ShiftStart(t, ShiftConn, NoUid, z, ShiftLayer, v)
    \/ \E t \in Tasks : ShiftPosts(t)
    \/ \E t \in Tasks : ShiftUsers(t)
    \/ \E t \in Tasks : ShiftFault(t)

SpecShift == Init /\ [][NextShift]_vars

\* users enter the world on one connection while the other shifts its view and
\* names one of them as its own; the first point lies inside the first rect of
\* ShiftRects only, the second on the corner all three share
ShiftUserPos == {<< -2, -2 >>, << 0, 0 >>}

NextShiftUsers ==
    \/ \E u \in Uids : \E g \in ShiftUserPos : add_user("t2", u, g, 1, NoName)
    \/ \E u \in {NoUid, "u1"} : \E v \in ShiftViews :
          ShiftStart("t1", "t1", u, MIN_ZOOM_LEVEL, ShiftLayer, v)
    \/ ShiftPosts("t1")
    \/ ShiftUsers("t1")

SpecShiftUsers == Init /\ [][NextShiftUsers]_vars

InTilesOf(r, p) ==
    /\ r.left <= p[1] /\ p[1] < r.right
    /\ r.bottom <= p[2] /\ p[2] < r.top

\* floor((k + W) / tile_size) * tile_size - W
FloorCorner(k, tile_layer) ==
    ((k + HalfWorld) \div tile_size(tile_layer)) * tile_size(tile_layer) - HalfWorld

FloorRoom(p, tile_layer) ==
    room_name(tile_layer, FloorCorner(p[1], tile_layer), FloorCorner(p[2], tile_layer))

FanOutExact ==
    /\ \A c \in emitted : \A r \in Tasks \ {c} :
          rooms[r] # {} => (c \in inbox[r] <=> InTilesOf(plan.rect, plan.pos))
    /\ emitted # {} =>
          {rm \in Targets({plan.pos}) : rm[1] = plan.layer}
             = {FloorRoom(plan.pos, plan.layer)}

InsideWorld(p) ==
    /\ -HalfWorld <= p[1] /\ p[1] < HalfWorld
    /\ -HalfWorld <= p[2] /\ p[2] < HalfWorld

\* C7 as stated: a connection that joined the rooms of the rect at layer L gets
\* an event another connection broadcast at pos if and only if pos lies in one
\* of the rect's half-open tiles, and the room the descent picks at layer L is
\* the room of the floor cell.
C7_FanOutExactEverywhere == FanOutExact

\* C7 amended: the same for every pos with -180 <= x < 180 and -180 <= y < 180.
C7_FanOutExactInsideWorld == InsideWorld(plan.pos) => FanOutExact

\* C7 witness: on the last layer an event broadcast on the west edge of the
\* joined rect has been received, by a connection that joined it.
C7_Witness ==
    /\ plan.layer = MAX_TILE_LAYER
    /\ InsideWorld(plan.pos)
    /\ plan.pos[1] = plan.rect.left
    /\ \E c \in emitted : \E r \in Tasks \ {c} : rooms[r] # {} /\ c \in inbox[r]

InAddCritical(t) ==
    pc[t] \in {"add_geoquery", "add_nearby", "add_save", "add_blurbs", "add_unlock"}
InDelCritical(t) == pc[t] \in {"del_sizes", "del_del", "del_unlock"}

\* C11: a lease that is still in force belongs to an insert or delete that is
\* still running: an operation that has ended, on any path, a failing cache
\* command included, has released its lock.
C11_LockReleasedOnEveryExit ==
    /\ lock[ADD_LOCK] # NoTask =>
          lock[ADD_LOCK] \in AllTasks /\ InAddCritical(lock[ADD_LOCK])
    /\ lock[DEL_LOCK] # NoTask =>
          lock[DEL_LOCK] \in AllTasks /\ InDelCritical(lock[DEL_LOCK])

Reconciled == runs >= 1 /\ AllIdle

\* C12: when the nightly job has completed a second time, with nothing but the
\* job running since its first completion and the store unchanged, the geo-sets,
\* the sizes and the blurbs are what the first run left.
C12_ReconciliationIdempotent ==
    (runs >= 2 /\ AllIdle) => << geo, size, blurb >> = snap

\* C12 witness: two runs have completed over a store whose posts merge into a
\* cluster on some zoom and stay apart on another.
C12_Witness ==
    /\ runs = 2 /\ AllIdle
    /\ \E i \in Ids : size[MIN_CACHED_ZOOM_LEVEL][i] >= 2
    /\ Cardinality(Clusters(MAX_CACHED_ZOOM_LEVEL)) >= 2

\* C13: when a run of the nightly job has completed with no write beside it,
\* the store holds no post with expiry < today, and on every cached zoom the
\* sizes add up to the number of stored posts, every cluster is the mean of
\* the stored posts it stands for, and a blurb exists exactly for the ids that
\* are a single on some zoom.
C13_ReconciliationHeals ==
    Reconciled =>
        /\ \A i \in LivePosts : posts[i].expiry >= today
        /\ \A z \in Zooms : SumOver(size[z], Clusters(z)) = Cardinality(LivePosts)
        /\ \A z \in Zooms : \A c \in Clusters(z) :
              LET m == members[z][c]
              IN /\ m \subseteq LivePosts
                 /\ size[z][c] = Cardinality(m)
                 /\ geo[z][c][1] * Cardinality(m) =
                        SumOver([i \in Ids |-> posts[i].pos[1]], m)
                 /\ geo[z][c][2] * Cardinality(m) =
                        SumOver([i \in Ids |-> posts[i].pos[2]], m)
        /\ \A i \in Ids : (blurb[i] # NoBlurb) <=> (\E z \in Zooms : size[z][i] = 1)

\* C13 witness: a run has completed after an insert had failed half way, a
\* post had been deleted from the store, and the failed post is back in the
\* index.
C13_Witness ==
    /\ Reconciled
    /\ \E i \in LivePosts : {"failed", "indexed"} \subseteq trail[i]
    /\ \E j \in Ids : "removed" \in trail[j] /\ ~posts[j].present

\* the response returns post p as a single under its id, or counts it in the
\* size of a cluster
Returned(p, clusters) ==
    \E c \in clusters : \/ c.id = p /\ c.size = 0
                        \/ c.size >= 2 /\ p \in c.mem

\* C14: a view-shift that was answered returned every post whose request had
\* completed before the view-shift began and whose position its rect covers.
C14_PostVisibleToNextViewShift ==
    \A t \in Tasks :
        (pc[t] = "idle" /\ resp[t][1] = "ok") =>
            \A p \in due[t] : Returned(p, resp[t][2])

\* C15: when two sign-up requests with the same username have both been
\* acknowledged, exactly one got a token and the other got 409; and no two
\* documents of the users collection ever have the same username.
C15_UsernameUniqueUnderRace ==
    /\ \A t1, t2 \in Tasks :
          (t1 # t2 /\ resp[t1] # NoResp /\ resp[t2] # NoResp
              /\ resp[t1][2] = resp[t2][2]) =>
             {resp[t1][1], resp[t2][1]} = {"jwt", "409"}
    /\ \A n \in Names : UsernameCount(n) <= 1

\* the rows of a votes collection that reference post id, as get_vote finds them
RowsOnPost(rows, id) == {r \in rows : MatchesField(r, "post_id", id)}

\* C16: in the state delete_post(P) returns Ok in, the votes collection holds
\* no row referencing P (so get_vote(u, P) is None for every user u), whatever
\* votes were recorded on P before.
C16_DeletePurgesVotes ==
    [][\A t \in Tasks :
          (pc[t] = "delp_votes" /\ pc'[t] = "idle"
              /\ ack' = << "delete-post", loc[t].id, "ok" >>) =>
             RowsOnPost(votes', loc[t].id) = {}]_vars

\* the store after set_vote(uid, id, vote) has run on the present store
AfterVote(uid, id, vote) == insert_vote(posts, votes, uid, id, vote)

\* the store after set_vote(uid, id, second) has run directly after
\* set_vote(uid, id, first)
AfterVotes(uid, id, first, second) ==
    LET s1 == AfterVote(uid, id, first)
    IN insert_vote(s1[1], s1[2], uid, id, second)

\* C17: for every user u, post p and vote kind k, set_vote(u, p, k) a second
\* time directly after the first leaves the posts collection (likes, dislikes,
\* expiry) and the votes collection (the vote row) as the first call left them.
C17_SetVoteIdempotent ==
    \A u \in Uids : \A p \in Ids : \A k \in VoteKinds :
        AfterVotes(u, p, k, k) = AfterVote(u, p, k)

\* C17 witness: votes have been cast on the post, and a user has a vote on it
\* that a set_vote of the other kind changes.
C17_Witness ==
    /\ AllIdle
    /\ posts[VotePost].present
    /\ posts[VotePost].likes = 1
    /\ get_vote("u1", VotePost) = "like"
    /\ AfterVote("u1", VotePost, "dislike") # << posts, votes >>
    /\ AfterVotes("u1", VotePost, "dislike", "dislike")[1][VotePost].dislikes
          = posts[VotePost].dislikes + 1

\* C18: for a user u with no vote on post p, set_vote(u, p, Like) or
\* set_vote(u, p, Dislike) followed directly by set_vote(u, p, None) leaves
\* likes, dislikes and expiry of the post as they were before the first call,
\* and no vote row for (u, p).
C18_VoteRoundTrip ==
    \A u \in Uids : \A p \in Ids : \A k \in {"like", "dislike"} :
        get_vote(u, p) = "none" =>
            LET s2 == AfterVotes(u, p, k, "none")
            IN /\ s2[1][p].likes = posts[p].likes
               /\ s2[1][p].dislikes = posts[p].dislikes
               /\ s2[1][p].expiry = posts[p].expiry
               /\ RowsIn(s2[2], u, p) = {}

\* C18 witness: the post has been viewed and liked by one user, the other has
\* no vote on it, and the other's first set_vote moves counters and expiry.
C18_Witness ==
    /\ AllIdle
    /\ posts[VotePost].present
    /\ posts[VotePost].views = MaxViews
    /\ get_vote("u1", VotePost) = "like"
    /\ get_vote("u2", VotePost) = "none"
    /\ AfterVote("u2", VotePost, "like")[1][VotePost].likes = posts[VotePost].likes + 1
    /\ AfterVote("u2", VotePost, "like")[1][VotePost].expiry = posts[VotePost].expiry + 2
    /\ RowsIn(AfterVote("u2", VotePost, "like")[2], "u2", VotePost) # {}

\* connection r joined the room of the tile of point p on the layer of its view
Covers(r, p) == FloorRoom(p, plan.layer) \in rooms[r]

\* C19: in the step a move handler emits user-move for a move from old to pos,
\* every other connection whose rooms cover the tile of old, the tile of pos or
\* both gets exactly one event, and the moving connection gets none.
C19_MoveFanOutOnce ==
    [][\A t \in Tasks :
          (pc[t] = "pos_add" /\ pc'[t] = "idle") =>
             /\ got'[t] = got[t]
             /\ \A r \in Tasks \ {t} :
                   (Covers(r, loc[t].old) \/ Covers(r, loc[t].pos)) =>
                      got'[r] = got[r] + 1]_vars

\* C19 witness: on layer 4 the user has moved out of the rect both connections
\* view into the tile west of it; the other connection has got one event, the
\* moving connection none.
C19_Witness ==
    /\ plan.layer = 4
    /\ pc["t1"] = "idle"
    /\ users_geo["u1"] = plan.pos
    /\ Covers("t1", plan.from) /\ Covers("t2", plan.from)
    /\ ~Covers("t2", plan.pos)
    /\ got["t2"] = 1
    /\ got["t1"] = 0

\* C20: in the step a view-shift is acknowledged with its response, the rooms
\* of the connection are exactly the tile rooms of the rects of that request
\* at its tile layer.
C20_RoomsAreThoseOfTheView ==
    [][\A t \in Tasks :
          (resp'[t] # resp[t] /\ resp'[t][1] = "ok") =>
             rooms'[ShiftConn] = resp'[t][2]]_vars

\* C21: the step in which a delete-post handler has read a post whose author
\* is not the uid of the token acknowledges 401, ends the handler, and leaves
\* the posts and votes collections, the cluster index and the broadcast
\* events as they were.
C21_DeleteByNonOwnerRefused ==
    [][\A t \in Tasks :
          (pc[t] = "delp_get" /\ pc'[t] # "delp_get"
              /\ posts[loc[t].id].present /\ posts[loc[t].id].author # loc[t].uid) =>
             /\ ack' = << "delete-post", loc[t].id, "401" >>
             /\ pc'[t] = "idle"
             /\ posts' = posts /\ votes' = votes
             /\ geo' = geo /\ size' = size /\ blurb' = blurb
             /\ sent' = sent]_vars

\* C21 witness: a stored and indexed post of u1 was asked to be deleted with
\* another uid's token, 401 was acknowledged, and the post is still there.
C21_Witness ==
    \E i \in RaceIds :
        /\ AllIdle
        /\ ack = << "delete-post", i, "401" >>
        /\ posts[i].present /\ posts[i].author = "u1"
        /\ "indexed" \in trail[i]
        /\ << "post-delete", i >> \notin sent
        /\ \E z \in Zooms : geo[z][i] # Absent

\* C22: every request of a token-carrying acknowledged event whose token failed
\* verification has been acknowledged with 401.  (That such a request changes
\* neither the store nor the online index and broadcasts nothing holds by
\* TokenReject.)
C22_BadTokenAcknowledged401 ==
    \A t \in Tasks :
        (resp[t] # NoResp /\ resp[t][2] \subseteq AuthEvents) => resp[t][1] = "401"

\* C23: no document of the users collection has a username longer than 50.
C23_NoLongUsernameStored ==
    \A u \in Uids : users[u].present => Len(users[u].username) <= MAX_USERNAME_LEN

\* C28: an edit-user request acknowledged with 409 or 500 leaves avatar[uid]
\* and username[uid] as the request found them and broadcasts nothing; after
\* an edit-user of an online user acknowledged as a success, the user
\* document and the side-data hold the same avatar and username.
C28_FailedEditKeepsSideData ==
    [][\A t \in Tasks :
          (loc[t].op = "edit-user" /\ pc'[t] = "idle") =>
             LET uid == loc[t].uid
             IN /\ resp'[t][1] \in {"409", "500"} =>
                      /\ avatar'[uid] = loc[t].before[1]
                      /\ username'[uid] = loc[t].before[2]
                      /\ sent' = sent
                /\ (resp'[t][1] = "ok" /\ avatar'[uid] # NoAvatar /\ users'[uid].present) =>
                      /\ users'[uid].avatar = avatar'[uid]
                      /\ users'[uid].username = username'[uid]]_vars

\* C24: a view-shift that is reading the cluster index (the geo search or the
\* size and blurb read) never ends at that step: it goes on with the cache's
\* answer or, when the cache fails, with the store query.
C24_CacheReadFaultFallsThrough ==
    [][\A t \in Tasks :
          (pc[t] \in {"vs_search", "vs_sizes"} /\ pc'[t] # pc[t]) =>
             /\ pc'[t] \in {"vs_sizes", "vs_users", "vs_store"}
             /\ resp'[t] = resp[t]]_vars

\* C25: the disconnect of a connection whose socket maps to an online uid
\* removes the uid from the geo-set, the avatar, username and socket entries
\* and broadcasts user-leave at the position the uid then has; the steps of
\* the handler before that, and the whole handler when the socket maps to no
\* uid, change nothing and broadcast nothing.
C25_DisconnectRemovesAndAnnounces ==
    [][\A t \in Tasks :
          /\ (pc[t] = "disc_del" /\ pc'[t] = "idle") =>
                LET uid == loc[t].uid
                IN /\ users_geo'[uid] = Absent /\ avatar'[uid] = NoAvatar
                   /\ username'[uid] = NoName /\ socket'[t] = NoUid
                   /\ sent' = sent \cup {<< "user-leave", uid >>}
                   /\ loc[t].pos = users_geo[uid]
          /\ (pc[t] = "disc_pos" /\ pc'[t] # "disc_pos") => UNCHANGED << onlineVars, sent >>
          /\ (pc[t] = "idle" /\ socket[t] = NoUid) => pc'[t] \notin {"disc_pos", "disc_del"}]_vars

\* C26: the step of enter-world that adds the user leaves the geo-set with
\* the one entry of the uid holding the new position, also when the uid was
\* online already; an exit-world that finds the uid not online ends there,
\* changes nothing in the online index or the store and broadcasts nothing.
C26_EnterReplacesExitNoOp ==
    [][\A t \in Tasks :
          /\ (pc[t] = "enter_add" /\ pc'[t] = "idle") =>
                /\ users_geo'[loc[t].uid] = loc[t].pos
                /\ \A u \in Uids \ {loc[t].uid} : users_geo'[u] = users_geo[u]
          /\ (pc[t] = "exit_pos" /\ pc'[t] # "exit_pos"
                /\ (avatar[loc[t].uid] = NoAvatar \/ users_geo[loc[t].uid] = Absent)) =>
                /\ pc'[t] = "idle"
                /\ UNCHANGED << onlineVars, users, votes, posts, sent >>]_vars

\* an enter-world of an account that was online at another position has
\* been acknowledged, and so has an exit-world of an account not online
C26_Witness ==
    /\ \E t \in Tasks : \E g \in RacePos :
          /\ resp[t] = << "ok", {<< "enter-world", "u1", Stored(g) >>} >>
          /\ users_geo["u1"] \notin {Absent, Stored(g)}
    /\ \E t \in Tasks : resp[t] = << "404", {<< "exit-world", "u1" >>} >>

\* C27: a view-shift that is acknowledged 422 leaves the rooms of its
\* connection as they were when the request arrived.
C27_RejectedShiftKeepsRooms ==
    [][\A t \in Tasks :
          (pc[t] = "idle" /\ resp'[t] # resp[t] /\ resp'[t][1] = "422") =>
             rooms'[ShiftConn] = rooms[ShiftConn]]_vars

\* C29: the users of a view-shift response hold no entry with the uid the
\* request gave.
C29_OwnUidNotInUsers ==
    [][\A t \in Tasks :
          (pc[t] = "shift_users" /\ pc'[t] = "idle" /\ resp'[t][1] = "ok"
              /\ loc[t].uid # NoUid) =>
             resp'[t][3][loc[t].uid] = 0]_vars

\* the input points of the call whose result the locals hold
InputOf(t) == CHOOSE pts \in loc[t].cursor : TRUE

RECURSIVE SumSizes(_)
SumSizes(S) ==
    IF S = {} THEN 0
    ELSE LET c == CHOOSE x \in S : TRUE IN ClusterSize(c) + SumSizes(S \ {c})

C33_ConcurrentLikeCountsOnce ==
    AllIdle =>
        /\ posts[VotePost].likes = Cardinality(LikeRows(VotePost))
        /\ posts[VotePost].dislikes = Cardinality(DislikeRows(VotePost))
        /\ posts[VotePost].expiry = POST_LIFETIME + 2 * Cardinality(LikeRows(VotePost))
                                      - Cardinality(DislikeRows(VotePost))
        /\ \A u \in Uids : Cardinality(VoteRows(u, VotePost)) <= 1

\* C34: when a post request has run beside a run of the nightly job and both
\* have completed (no cache command having failed, no day having passed), on
\* every cached zoom each cluster's size is the number of posts it stands for
\* and the sizes add up to the number of stored posts: no post is counted twice.
C34_PostCountedOnceBesideNightly ==
    (AllIdle /\ runs >= 1 /\ today = 0 /\ NoFailure) =>
        \A z \in Zooms :
            /\ \A c \in Clusters(z) : size[z][c] = Cardinality(members[z][c])
            /\ SumOver(size[z], Clusters(z)) = Cardinality(LivePosts)

\* C35: a cluster that a cluster-index query returns as a single (no size, a
\* blurb attached) had size 1 on the queried zoom at some moment between the
\* start of the query and its size read.
C35_SingleWasSingleDuringQuery ==
    [][\A t \in Tasks :
          (pc[t] = "vs_sizes" /\ pc'[t] = "vs_users") =>
              \A c \in loc'[t].clusters :
                  (c.size = 0 /\ c.blurb # NoBlurb) => c.id \in wasOne[t]]_vars

\* C36: no orphaned online users -- whenever no handler is in flight, every uid
\* in the geo-set "users" is the value of socket[sid] of some connection sid.
C36_NoOrphanedOnlineUser ==
    AllIdle =>
        \A u \in Uids : users_geo[u] # Absent => \E t \in Tasks : socket[t] = u

\* C37: the step of a connection's disconnect handler that deletes from the
\* online index leaves in the geo-set "users" every user whose uid is the
\* socket entry of another connection (one that entered the world as that
\* user and is not being disconnected).
C37_DisconnectSparesOtherConnections ==
    [][\A t \in Tasks :
          (pc[t] = "disc_del" /\ pc'[t] = "idle") =>
              \A u \in Uids :
                  (users_geo[u] # Absent
                     /\ \E o \in Tasks \ {t} : socket[o] = u /\ pc[o] = "idle")
                  => users_geo'[u] # Absent]_vars

\* C38: whenever no handler is in flight, a uid in the geo-set "users" has a
\* username entry if and only if the store holds a user document for it.
C38_OnlineUsernameIffResident ==
    AllIdle =>
        \A u \in Uids :
            users_geo[u] # Absent => (username[u] # NoName <=> users[u].present)

\* C39: geo-set and size map agree -- whenever no cluster-index write is in
\* progress, on every cached zoom an id is a member of the geo-set if and only
\* if its size exists, and every size that exists is at least 1.
C39_GeoSetAndSizesAgree ==
    AllIdle =>
        \A z \in Zooms : \A i \in Ids :
            /\ (geo[z][i] # Absent) <=> (size[z][i] # 0)
            /\ size[z][i] # 0 => size[z][i] >= 1

\* C39 witness: with nothing in flight, a merged cluster stands on some zoom
\* and a deleted post has left every geo-set and has no size.
C39_Witness ==
    /\ AllIdle
    /\ \E z \in Zooms : \E i \in Ids : geo[z][i] # Absent /\ size[z][i] >= 2
    /\ \E j \in Ids : /\ "dropped" \in trail[j]
                       /\ \A z \in Zooms : geo[z][j] = Absent /\ size[z][j] = 0

=============================================================================
